---- MODULE Spec2Model ----
(***************************************************************************)
(* Chess engine of the ChessApplication repository: the board            *)
(* (chess_board.py), the piece rules (chess_pieces.py) and the parts of   *)
(* the computer opponent (chess_ai.py) that touch the board.              *)
(*                                                                         *)
(* A piece is an object: the grid holds references to pieces and each     *)
(* piece carries its own row/col. Pieces are modelled by identifiers     *)
(* 1..N, the grid holds identifiers (0 is Python's None) and `pieces`     *)
(* maps an identifier to the object's fields.                             *)
(***************************************************************************)
EXTENDS Integers, Sequences, FiniteSets, TLC

\* ------------------------------------------------------------------ bounds
\* state-changing calls (successful make_move, reset_game) explored per run
MaxSteps == 1
\* how far off the grid (rows and columns 0..7) the coordinates of a call reach
OffGrid == 1
\* calls of _alpha_beta on the moves of possible_moves that a search of the
\* computer opponent completes before its time limit has passed, at most
MaxSearches == 2

\* ------------------------------------------------------------- constants
None == 0
NoWinner == "None"
Colors == {"white", "black"}
Coord == (0 - OffGrid)..(7 + OffGrid)
Rows == 0..7

Abs(x) == IF x < 0 THEN -x ELSE x

Other(color) == IF color = "white" THEN "black" ELSE "white"

\* range(8) x range(8) in the order of the nested for loops (row-major)
AllCells == [i \in 1..64 |-> <<(i - 1) \div 8, (i - 1) % 8>>]

\* Python list subscript board[r][c]: a negative index counts from the end
At(bd, r, c) == bd[r % 8][c % 8]

\* Python list assignment board[r][c] = v
Put(bd, r, c, v) == [bd EXCEPT ![r % 8][c % 8] = v]

\* a subscript outside -8..7 raises IndexError
Subscriptable(r, c) == r \in -8..7 /\ c \in -8..7

\* ------------------------------------------------------------ piece rules
\* Each rule reads the piece's own row/col (self.row, self.col), not the cell
\* the grid holds it in. ps is the heap of piece objects, bd the grid.

\* Pawn.is_valid_move
Pawn_is_valid_move(self, ps, bd, new_row, new_col) ==
  LET row_diff == new_row - self.row
      col_diff == Abs(new_col - self.col)
      direction == IF self.color = "white" THEN 1 ELSE -1
  IN  IF col_diff = 0
      THEN \/ row_diff = direction /\ At(bd, new_row, new_col) = None
           \/ /\ ~self.has_moved
              /\ row_diff = 2 * direction
              /\ At(bd, new_row, new_col) = None
      ELSE IF col_diff = 1 /\ row_diff = direction
      THEN LET target == At(bd, new_row, new_col)
           IN  target # None /\ ps[target].color # self.color
      ELSE FALSE

\* -1, 0 or 1: the row_step / col_step of the straight-line walks
Step(from, to) == IF to = from THEN 0 ELSE IF to > from THEN 1 ELSE -1

\* mutant of StraightClear: the destination is not tested for a piece of the
\* mover's own color
StraightClear_AnyTarget(self, ps, bd, new_row, new_col) ==
  LET row_step == Step(self.row, new_row)
      col_step == Step(self.col, new_col)
      n == IF new_row = self.row THEN Abs(new_col - self.col)
           ELSE Abs(new_row - self.row)
  IN  \A k \in 1..(n - 1) :
        At(bd, self.row + k * row_step, self.col + k * col_step) = None

\* mutant of StraightClear: the cells on the way are not looked at
StraightClear_Jumps(self, ps, bd, new_row, new_col) ==
  LET target == At(bd, new_row, new_col)
  IN  target = None \/ ps[target].color # self.color

\* Rook._is_path_clear and Queen._is_straight_clear (same code): the while
\* loop visits the cells strictly between the piece and the destination
StraightClear(self, ps, bd, new_row, new_col) ==
  LET row_step == Step(self.row, new_row)
      col_step == Step(self.col, new_col)
      n == IF new_row = self.row THEN Abs(new_col - self.col)
           ELSE Abs(new_row - self.row)
      target == At(bd, new_row, new_col)
  IN  /\ \A k \in 1..(n - 1) :
           At(bd, self.row + k * row_step, self.col + k * col_step) = None
      /\ (target = None \/ ps[target].color # self.color)

\* mutant of DiagonalClear: the destination is not tested for a piece of the
\* mover's own color
DiagonalClear_AnyTarget(self, ps, bd, new_row, new_col) ==
  LET row_step == IF new_row > self.row THEN 1 ELSE -1
      col_step == IF new_col > self.col THEN 1 ELSE -1
      n == Abs(new_row - self.row)
  IN  \A k \in 1..(n - 1) :
        At(bd, self.row + k * row_step, self.col + k * col_step) = None

\* Bishop._is_diagonal_clear and Queen._is_diagonal_clear (same code): the
\* loop runs while current_row != new_row
DiagonalClear(self, ps, bd, new_row, new_col) ==
  LET row_step == IF new_row > self.row THEN 1 ELSE -1
      col_step == IF new_col > self.col THEN 1 ELSE -1
      n == Abs(new_row - self.row)
      target == At(bd, new_row, new_col)
  IN  /\ \A k \in 1..(n - 1) :
           At(bd, self.row + k * row_step, self.col + k * col_step) = None
      /\ (target = None \/ ps[target].color # self.color)

\* Rook.is_valid_move
Rook_is_valid_move(self, ps, bd, new_row, new_col) ==
  IF new_row = self.row \/ new_col = self.col
  THEN StraightClear(self, ps, bd, new_row, new_col)
  ELSE FALSE

\* Knight.is_valid_move
Knight_is_valid_move(self, ps, bd, new_row, new_col) ==
  LET row_diff == Abs(new_row - self.row)
      col_diff == Abs(new_col - self.col)
  IN  IF (row_diff = 2 /\ col_diff = 1) \/ (row_diff = 1 /\ col_diff = 2)
      THEN LET target == At(bd, new_row, new_col)
           IN  target = None \/ ps[target].color # self.color
      ELSE FALSE

\* Bishop.is_valid_move
Bishop_is_valid_move(self, ps, bd, new_row, new_col) ==
  LET row_diff == Abs(new_row - self.row)
      col_diff == Abs(new_col - self.col)
  IN  IF row_diff = col_diff /\ row_diff > 0
      THEN DiagonalClear(self, ps, bd, new_row, new_col)
      ELSE FALSE

\* mutant of Queen_is_valid_move: the queen moves like a rook only
Queen_is_valid_move_StraightOnly(self, ps, bd, new_row, new_col) ==
  IF new_row = self.row \/ new_col = self.col
  THEN StraightClear(self, ps, bd, new_row, new_col)
  ELSE FALSE

\* Queen.is_valid_move
Queen_is_valid_move(self, ps, bd, new_row, new_col) ==
  LET rook_move == new_row = self.row \/ new_col = self.col
      bishop_move == Abs(new_row - self.row) = Abs(new_col - self.col)
  IN  IF rook_move THEN StraightClear(self, ps, bd, new_row, new_col)
      ELSE IF bishop_move THEN DiagonalClear(self, ps, bd, new_row, new_col)
      ELSE FALSE

\* King.is_valid_move
King_is_valid_move(self, ps, bd, new_row, new_col) ==
  LET row_diff == Abs(new_row - self.row)
      col_diff == Abs(new_col - self.col)
  IN  IF row_diff <= 1 /\ col_diff <= 1 /\ row_diff + col_diff > 0
      THEN LET target == At(bd, new_row, new_col)
           IN  target = None \/ ps[target].color # self.color
      ELSE FALSE

\* piece.is_valid_move(new_row, new_col, board): dispatch on the class
IsValidMove(ps, bd, p, new_row, new_col) ==
  LET self == ps[p] IN
  CASE self.piece_type = "pawn"   -> Pawn_is_valid_move(self, ps, bd, new_row, new_col)
    [] self.piece_type = "rook"   -> Rook_is_valid_move(self, ps, bd, new_row, new_col)
    [] self.piece_type = "knight" -> Knight_is_valid_move(self, ps, bd, new_row, new_col)
    [] self.piece_type = "bishop" -> Bishop_is_valid_move(self, ps, bd, new_row, new_col)
    [] self.piece_type = "queen"  -> Queen_is_valid_move(self, ps, bd, new_row, new_col)
    [] self.piece_type = "king"   -> King_is_valid_move(self, ps, bd, new_row, new_col)

\* mutant of GetPossibleMoves: the destinations in column-major order
GetPossibleMoves_ColumnMajor(ps, bd, p) ==
  SelectSeq([i \in 1..64 |-> <<(i - 1) % 8, (i - 1) \div 8>>],
            LAMBDA rc : IsValidMove(ps, bd, p, rc[1], rc[2]))

\* ChessPiece.get_possible_moves: the destinations in row-major order
GetPossibleMoves(ps, bd, p) ==
  SelectSeq(AllCells, LAMBDA rc : IsValidMove(ps, bd, p, rc[1], rc[2]))

\* ------------------------------------------------------------- the board
\* A ChessBoard object `self` is the record
\*   [board, pieces, current_player, game_over, winner, move_history].
\* An operation that mutates the object returns [self |-> the object after
\* the call, ret |-> the value returned].

\* ChessBoard.get_piece
GetPiece(self, row, col) ==
  IF 0 <= row /\ row < 8 /\ 0 <= col /\ col < 8
  THEN self.board[row][col]
  ELSE None

\* ChessBoard.is_valid_position
IsValidPosition(row, col) == 0 <= row /\ row < 8 /\ 0 <= col /\ col < 8

\* ChessBoard.find_king: the first king of the color in row-major order,
\* <<>> when there is none (Python's None)
FindKing(self, color) ==
  LET kings == {i \in 1..64 :
                 LET piece == self.board[AllCells[i][1]][AllCells[i][2]]
                 IN  /\ piece # None
                     /\ self.pieces[piece].piece_type = "king"
                     /\ self.pieces[piece].color = color}
  IN  IF kings = {} THEN <<>>
      ELSE AllCells[CHOOSE i \in kings : \A j \in kings : i <= j]

\* mutant of IsInCheck: a color without a king counts as in check
IsInCheck_NoKingIsCheck(self, color) ==
  LET king_pos == FindKing(self, color)
      opponent_color == IF color = "white" THEN "black" ELSE "white"
  IN  IF king_pos = <<>> THEN TRUE
      ELSE \E row \in Rows, col \in Rows :
             LET piece == self.board[row][col]
             IN  /\ piece # None
                 /\ self.pieces[piece].color = opponent_color
                 /\ IsValidMove(self.pieces, self.board, piece,
                                king_pos[1], king_pos[2])

\* ChessBoard.is_in_check
IsInCheck(self, color) ==
  LET king_pos == FindKing(self, color)
      opponent_color == IF color = "white" THEN "black" ELSE "white"
  IN  IF king_pos = <<>> THEN FALSE
      ELSE \E row \in Rows, col \in Rows :
             LET piece == self.board[row][col]
             IN  /\ piece # None
                 /\ self.pieces[piece].color = opponent_color
                 /\ IsValidMove(self.pieces, self.board, piece,
                                king_pos[1], king_pos[2])

\* mutant of WouldBeInCheckAfterMove: the grid is restored, the piece's row
\* and col are not
WouldBeInCheckAfterMove_NoRestore(self, from_row, from_col, to_row, to_col) ==
  LET piece == At(self.board, from_row, from_col)
      captured_piece == At(self.board, to_row, to_col)
      applied == [self EXCEPT
        !.board = Put(Put(@, to_row, to_col, piece), from_row, from_col, None),
        !.pieces[piece].row = to_row,
        !.pieces[piece].col = to_col]
      in_check == IsInCheck(applied, self.current_player)
      restored == [applied EXCEPT
        !.board = Put(Put(@, from_row, from_col, piece),
                      to_row, to_col, captured_piece)]
  IN  [self |-> restored, ret |-> in_check]

WouldBeInCheckAfterMove_NoCaptured(self, from_row, from_col, to_row, to_col) ==
  LET piece == At(self.board, from_row, from_col)
      original_row == self.pieces[piece].row
      original_col == self.pieces[piece].col
      applied == [self EXCEPT
        !.board = Put(Put(@, to_row, to_col, piece), from_row, from_col, None),
        !.pieces[piece].row = to_row,
        !.pieces[piece].col = to_col]
      in_check == IsInCheck(applied, self.current_player)
      restored == [applied EXCEPT
        !.board = Put(Put(@, from_row, from_col, piece), to_row, to_col, None),
        !.pieces[piece].row = original_row,
        !.pieces[piece].col = original_col]
  IN  [self |-> restored, ret |-> in_check]

\* ChessBoard.would_be_in_check_after_move: apply, test, restore
WouldBeInCheckAfterMove(self, from_row, from_col, to_row, to_col) ==
  LET piece == At(self.board, from_row, from_col)
      captured_piece == At(self.board, to_row, to_col)
      original_row == self.pieces[piece].row
      original_col == self.pieces[piece].col
      applied == [self EXCEPT
        !.board = Put(Put(@, to_row, to_col, piece), from_row, from_col, None),
        !.pieces[piece].row = to_row,
        !.pieces[piece].col = to_col]
      in_check == IsInCheck(applied, self.current_player)
      restored == [applied EXCEPT
        !.board = Put(Put(@, from_row, from_col, piece),
                      to_row, to_col, captured_piece),
        !.pieces[piece].row = original_row,
        !.pieces[piece].col = original_col]
  IN  [self |-> restored, ret |-> in_check]

\* get_all_possible_moves, "if not would_be_in_check_after_move(...):
\* moves.append(...)": w is what would_be_in_check_after_move returned
AppendUnlessCheck(acc, from, to, w) ==
  [self |-> w.self,
   ret |-> IF w.ret THEN acc.ret ELSE Append(acc.ret, <<from, to>>)]

\* the inner loop of get_all_possible_moves, over piece_moves[lo..hi] in
\* this order: the first half of the range, then the second.
\* acc = [self |-> the board so far, ret |-> the moves so far], which is
\* computed (its length is read) before the range is entered
RECURSIVE FilterRange(_, _, _, _, _)
FilterRange(acc, from, piece_moves, lo, hi) ==
  IF Len(acc.ret) < 0 \/ lo > hi THEN acc
  ELSE IF lo = hi
  THEN AppendUnlessCheck(acc, from, piece_moves[lo],
         WouldBeInCheckAfterMove(acc.self, from[1], from[2],
                                 piece_moves[lo][1], piece_moves[lo][2]))
  ELSE FilterRange(
         FilterRange(acc, from, piece_moves, lo, (lo + hi) \div 2),
         from, piece_moves, (lo + hi) \div 2 + 1, hi)

\* the inner loop of get_all_possible_moves, over piece_moves[i..]
FilterMoves(acc, from, piece_moves, i) ==
  FilterRange(acc, from, piece_moves, i, Len(piece_moves))

\* the body of the loops of get_all_possible_moves for one cell: a piece of
\* the color contributes its moves
ScanCell(acc, color, cell) ==
  LET piece == acc.self.board[cell[1]][cell[2]]
  IN  IF piece # None /\ acc.self.pieces[piece].color = color
      THEN FilterMoves(acc, cell,
             GetPossibleMoves(acc.self.pieces, acc.self.board, piece), 1)
      ELSE acc

\* "for row in range(8): for col in range(8)" of get_all_possible_moves,
\* over the cells AllCells[lo..hi] in this order (the first half of the
\* range, then the second); acc is computed before the range is entered
RECURSIVE ScanCells(_, _, _, _)
ScanCells(acc, color, lo, hi) ==
  IF Len(acc.ret) < 0 \/ lo > hi THEN acc
  ELSE IF lo = hi THEN ScanCell(acc, color, AllCells[lo])
  ELSE ScanCells(ScanCells(acc, color, lo, (lo + hi) \div 2),
                 color, (lo + hi) \div 2 + 1, hi)

\* ChessBoard.get_all_possible_moves
GetAllPossibleMoves(self, color) ==
  ScanCells([self |-> self, ret |-> <<>>], color, 1, Len(AllCells))

\* "return len(self.get_all_possible_moves(color)) == 0" of is_checkmate and
\* is_stalemate: g is what get_all_possible_moves returned
HasNoMoves(g) == [self |-> g.self, ret |-> Len(g.ret) = 0]

\* mutant of IsCheckmate: a check counts as mate, the moves are not looked at
IsCheckmate_CheckOnly(self, color) ==
  [self |-> self, ret |-> IsInCheck(self, color)]

\* ChessBoard.is_checkmate
IsCheckmate(self, color) ==
  IF ~IsInCheck(self, color) THEN [self |-> self, ret |-> FALSE]
  ELSE HasNoMoves(GetAllPossibleMoves(self, color))

\* ChessBoard.is_stalemate
IsStalemate(self, color) ==
  IF IsInCheck(self, color) THEN [self |-> self, ret |-> FALSE]
  ELSE HasNoMoves(GetAllPossibleMoves(self, color))

\* mutant of EndIfStalemate: a stalemate does not end the game
EndIfStalemate_NotOver(sm) == sm.self

\* check_game_end, the elif branch: sm is what is_stalemate returned
EndIfStalemate(sm) ==
  IF sm.ret THEN [sm.self EXCEPT !.game_over = TRUE, !.winner = "draw"]
  ELSE sm.self

\* check_game_end, the if branch: cm is what is_checkmate returned
EndIfCheckmate(cm) ==
  IF cm.ret
  THEN [cm.self EXCEPT
         !.game_over = TRUE,
         !.winner = IF cm.self.current_player = "white" THEN "black"
                    ELSE "white"]
  ELSE EndIfStalemate(IsStalemate(cm.self, cm.self.current_player))

\* ChessBoard.check_game_end
CheckGameEnd(self) == EndIfCheckmate(IsCheckmate(self, self.current_player))

\* mutant of MoveTo: has_moved is not set
MoveTo_NoFlag(ps, p, new_row, new_col) ==
  [ps EXCEPT ![p].row = new_row, ![p].col = new_col]

\* ChessPiece.move_to
MoveTo(ps, p, new_row, new_col) ==
  [ps EXCEPT ![p].row = new_row, ![p].col = new_col, ![p].has_moved = TRUE]

\* value of a call that ends in an uncaught IndexError
Raised == <<FALSE, "IndexError">>

\* mutant of RejectIfCheck: make_move goes on whatever the trial move showed
RejectIfCheck_Never(w) == [self |-> w.self, ret |-> <<>>]

\* make_move, "if self.would_be_in_check_after_move(...)": w is what
\* would_be_in_check_after_move returned; ret <<>> says that no check failed
\* and the call goes on
RejectIfCheck(w) ==
  [self |-> w.self,
   ret |-> IF w.ret THEN <<FALSE, "Move would put king in check">> ELSE <<>>]

\* mutant of MakeMoveChecks: the destination is tested before the owner of
\* the piece
MakeMoveChecks_DestinationFirst(self, from_row, from_col, to_row, to_col) ==
  LET piece == GetPiece(self, from_row, from_col)
  IN  IF piece = None
      THEN [self |-> self, ret |-> <<FALSE, "No piece at source position">>]
      ELSE IF ~IsValidPosition(to_row, to_col)
      THEN [self |-> self, ret |-> <<FALSE, "Invalid destination">>]
      ELSE IF self.pieces[piece].color # self.current_player
      THEN [self |-> self, ret |-> <<FALSE, "Not your piece">>]
      ELSE IF ~IsValidMove(self.pieces, self.board, piece, to_row, to_col)
      THEN [self |-> self, ret |-> <<FALSE, "Invalid move for this piece">>]
      ELSE RejectIfCheck(WouldBeInCheckAfterMove(self, from_row, from_col,
                                                 to_row, to_col))

\* ChessBoard.make_move, the checks before "Make the move": ret is the pair
\* returned by the first check that fails, <<>> when none fails
MakeMoveChecks(self, from_row, from_col, to_row, to_col) ==
  LET piece == GetPiece(self, from_row, from_col)
  IN  IF piece = None
      THEN [self |-> self, ret |-> <<FALSE, "No piece at source position">>]
      ELSE IF self.pieces[piece].color # self.current_player
      THEN [self |-> self, ret |-> <<FALSE, "Not your piece">>]
      ELSE IF ~IsValidPosition(to_row, to_col)
      THEN [self |-> self, ret |-> <<FALSE, "Invalid destination">>]
      ELSE IF ~Subscriptable(to_row, to_col)
      THEN [self |-> self, ret |-> Raised]
      ELSE IF ~IsValidMove(self.pieces, self.board, piece, to_row, to_col)
      THEN [self |-> self, ret |-> <<FALSE, "Invalid move for this piece">>]
      ELSE RejectIfCheck(WouldBeInCheckAfterMove(self, from_row, from_col,
                                                 to_row, to_col))

\* mutant of MakeMoveApply: the turn does not pass to the other color
MakeMoveApply_NoSwitch(self, from_row, from_col, to_row, to_col) ==
  LET piece == GetPiece(self, from_row, from_col)
      captured_piece == At(self.board, to_row, to_col)
      move == [from |-> <<from_row, from_col>>,
               to |-> <<to_row, to_col>>,
               piece |-> piece,
               captured |-> captured_piece,
               player |-> self.current_player]
      moved == [self EXCEPT
        !.board = Put(Put(@, to_row, to_col, piece), from_row, from_col, None),
        !.pieces = MoveTo(@, piece, to_row, to_col),
        !.move_history = Append(@, move)]
  IN  [self |-> CheckGameEnd(moved), ret |-> <<TRUE, "Move successful">>]

\* mutant of MakeMoveApply: the move is not recorded
MakeMoveApply_NoRecord(self, from_row, from_col, to_row, to_col) ==
  LET piece == GetPiece(self, from_row, from_col)
      moved == [self EXCEPT
        !.board = Put(Put(@, to_row, to_col, piece), from_row, from_col, None),
        !.pieces = MoveTo(@, piece, to_row, to_col),
        !.current_player = IF @ = "white" THEN "black" ELSE "white"]
  IN  [self |-> CheckGameEnd(moved), ret |-> <<TRUE, "Move successful">>]

\* ChessBoard.make_move from "Make the move" on: move the piece, record the
\* move, switch players, check for the end of the game
MakeMoveApply(self, from_row, from_col, to_row, to_col) ==
  LET piece == GetPiece(self, from_row, from_col)
      captured_piece == At(self.board, to_row, to_col)
      move == [from |-> <<from_row, from_col>>,
               to |-> <<to_row, to_col>>,
               piece |-> piece,
               captured |-> captured_piece,
               player |-> self.current_player]
      moved == [self EXCEPT
        !.board = Put(Put(@, to_row, to_col, piece), from_row, from_col, None),
        !.pieces = MoveTo(@, piece, to_row, to_col),
        !.move_history = Append(@, move),
        !.current_player = IF @ = "white" THEN "black" ELSE "white"]
  IN  [self |-> CheckGameEnd(moved), ret |-> <<TRUE, "Move successful">>]

\* make_move after its checks: checked is what MakeMoveChecks gave
MakeMoveAfterChecks(checked, from_row, from_col, to_row, to_col) ==
  IF checked.ret # <<>> THEN checked
  ELSE MakeMoveApply(checked.self, from_row, from_col, to_row, to_col)

\* ChessBoard.make_move
MakeMoveCall(self, from_row, from_col, to_row, to_col) ==
  MakeMoveAfterChecks(
    MakeMoveChecks(self, from_row, from_col, to_row, to_col),
    from_row, from_col, to_row, to_col)

\* the piece classes of the back rank, piece_order of setup_initial_position
PieceOrder ==
  <<"rook", "knight", "bishop", "queen", "king", "bishop", "knight", "rook">>

\* Pieces are numbered in the order setup_initial_position constructs them:
\* for each column the black then the white pawn (1..16), then for each
\* column the black then the white back-rank piece (17..32).
InitialPieces ==
  [p \in 1..32 |->
     LET col == ((p - 1) % 16) \div 2
         color == IF p % 2 = 1 THEN "black" ELSE "white"
     IN  [piece_type |-> IF p <= 16 THEN "pawn" ELSE PieceOrder[col + 1],
          color |-> color,
          row |-> IF p <= 16 THEN (IF color = "black" THEN 1 ELSE 6)
                  ELSE (IF color = "black" THEN 0 ELSE 7),
          col |-> col,
          has_moved |-> FALSE]]

\* the grid after setup_initial_position
InitialGrid ==
  [row \in Rows |-> [col \in Rows |->
     CASE row = 1 -> 2 * col + 1
       [] row = 6 -> 2 * col + 2
       [] row = 0 -> 17 + 2 * col
       [] row = 7 -> 18 + 2 * col
       [] OTHER -> None]]

\* ChessBoard.__init__
NewBoard ==
  [board |-> InitialGrid,
   pieces |-> InitialPieces,
   current_player |-> "white",
   game_over |-> FALSE,
   winner |-> NoWinner,
   move_history |-> <<>>]

\* ---------------------------------------------------- the computer opponent
\* A ChessAI object is its color and its difficulty. Scores are the code's
\* floats times 20, which makes every term of the evaluation an integer.

\* float('inf'): above every score of a position
PosInf == 1000000
NegInf == 0 - PosInf

\* max_depth of _get_minimax_move at difficulty 'hard'
MaxDepth == 4

Max(a, b) == IF a >= b THEN a ELSE b
Min(a, b) == IF a <= b THEN a ELSE b

\* the _alpha_beta calls of a run: on the first MaxRootMoves possible moves
\* of the board after at most MaxOpeningLen moves, to the depths
\* 1..MaxSearchDepth; to the depth MaxSearchDepth only on the first
\* MaxDeepRootMoves possible moves of the board after at most
\* MaxDeepOpeningLen moves
MaxRootMoves == 4
MaxSearchDepth == 3
MaxOpeningLen == 5
MaxDeepRootMoves == 2
MaxDeepOpeningLen == 1

\* ChessAI.piece_values, times 20
PieceValues ==
  [pawn |-> 20, knight |-> 60, bishop |-> 60, rook |-> 100, queen |-> 180,
   king |-> 2000]

\* ChessAI._order_moves: the captures, then the quiet moves, each in the
\* order of the list
OrderMoves(self, moves) ==
  SelectSeq(moves, LAMBDA m : self.board[m[2][1]][m[2][2]] # None)
    \o SelectSeq(moves, LAMBDA m : self.board[m[2][1]][m[2][2]] = None)

\* ChessAI._get_position_bonus, times 20; center_distance is
\* abs(3.5 - row) + abs(3.5 - col)
GetPositionBonus(piece, row, col) ==
  LET twice_center_distance == Abs(7 - 2 * row) + Abs(7 - 2 * col)
  IN  CASE piece.piece_type = "pawn" ->
             IF piece.color = "white" THEN (7 - row) * 2 ELSE row * 2
        [] piece.piece_type = "knight" -> 8 - twice_center_distance
        [] piece.piece_type = "bishop" -> 7 - (twice_center_distance \div 2)
        [] piece.piece_type = "king" -> 0 - twice_center_distance
        [] OTHER -> 0

\* the pawn shield of _evaluate_king_safety: the pawns of the color on the
\* row before the king, in the king's column and the two beside it
PawnShield(self, color, shield_row, king_col) ==
  Cardinality({col_offset \in {-1, 0, 1} :
     LET shield_col == king_col + col_offset
     IN  /\ 0 <= shield_col /\ shield_col < 8
         /\ self.board[shield_row][shield_col] # None
         /\ self.pieces[self.board[shield_row][shield_col]].piece_type = "pawn"
         /\ self.pieces[self.board[shield_row][shield_col]].color = color})

\* mutant of EvaluateKingSafety: a missing king counts for nothing
EvaluateKingSafety_MissingIsZero(self, color) ==
  LET king_pos == FindKing(self, color)
  IN  IF king_pos = <<>> THEN 0
      ELSE IF color = "white" /\ king_pos[1] = 7
      THEN PawnShield(self, color, 6, king_pos[2])
      ELSE IF color = "black" /\ king_pos[1] = 0
      THEN PawnShield(self, color, 1, king_pos[2])
      ELSE 0

\* ChessAI._evaluate_king_safety (not scaled)
EvaluateKingSafety(self, color) ==
  LET king_pos == FindKing(self, color)
  IN  IF king_pos = <<>> THEN -100
      ELSE IF color = "white" /\ king_pos[1] = 7
      THEN PawnShield(self, color, 6, king_pos[2])
      ELSE IF color = "black" /\ king_pos[1] = 0
      THEN PawnShield(self, color, 1, king_pos[2])
      ELSE 0

\* the material loop of _evaluate_position_advanced over the cells of a row
\* from col on: the value and the bonus of a piece count for its own side
RECURSIVE MaterialCols(_, _, _, _)
MaterialCols(self, ai_color, row, col) ==
  IF col > 7 THEN 0
  ELSE LET piece == self.board[row][col]
       IN  (IF piece = None THEN 0
            ELSE LET total_value ==
                       PieceValues[self.pieces[piece].piece_type]
                         + GetPositionBonus(self.pieces[piece], row, col)
                 IN  IF self.pieces[piece].color = ai_color
                     THEN total_value ELSE 0 - total_value)
           + MaterialCols(self, ai_color, row, col + 1)

\* the material loop over the rows from row on
RECURSIVE MaterialRows(_, _, _)
MaterialRows(self, ai_color, row) ==
  IF row > 7 THEN 0
  ELSE MaterialCols(self, ai_color, row, 0) + MaterialRows(self, ai_color, row + 1)

\* mutant of AddMobility: only the moves of the AI's color count
AddMobility_MineOnly(score, mine, theirs) ==
  [self |-> theirs.self, ret |-> score + Len(mine.ret) * 2]

\* the mobility term of _evaluate_position_advanced and its sum: mine and
\* theirs are what the two get_all_possible_moves calls returned
AddMobility(score, mine, theirs) ==
  [self |-> theirs.self,
   ret |-> score + (Len(mine.ret) - Len(theirs.ret)) * 2]

\* _evaluate_position_advanced after the first get_all_possible_moves call
EvaluateMobility(score, mine, ai_color) ==
  AddMobility(score, mine, GetAllPossibleMoves(mine.self, Other(ai_color)))

\* ChessAI._evaluate_position_advanced, times 20
EvaluatePositionAdvanced(self, ai_color) ==
  EvaluateMobility(
    MaterialRows(self, ai_color, 0)
      + EvaluateKingSafety(self, ai_color) * 40
      - EvaluateKingSafety(self, Other(ai_color)) * 40,
    GetAllPossibleMoves(self, ai_color), ai_color)

\* mutant of AlphaBetaUpdate: the loop is left as soon as beta comes within a
\* pawn of alpha
AlphaBetaUpdate_WideCut(acc, res, maximizing) ==
  LET alpha == IF maximizing THEN Max(acc.alpha, res.ret) ELSE acc.alpha
      beta == IF maximizing THEN acc.beta ELSE Min(acc.beta, res.ret)
  IN  [self |-> res.self,
       eval |-> IF maximizing THEN Max(acc.eval, res.ret)
                ELSE Min(acc.eval, res.ret),
       alpha |-> alpha,
       beta |-> beta,
       cut |-> beta <= alpha + 20]

\* the body of the loops of _alpha_beta: eval_score is what the recursive
\* call returned as res; acc = [self, eval, alpha, beta, cut]
AlphaBetaUpdate(acc, res, maximizing) ==
  LET alpha == IF maximizing THEN Max(acc.alpha, res.ret) ELSE acc.alpha
      beta == IF maximizing THEN acc.beta ELSE Min(acc.beta, res.ret)
  IN  [self |-> res.self,
       eval |-> IF maximizing THEN Max(acc.eval, res.ret)
                ELSE Min(acc.eval, res.ret),
       alpha |-> alpha,
       beta |-> beta,
       cut |-> beta <= alpha]

\* "Restore board state" of _alpha_beta, which then returns max_eval
AlphaBetaRestore_GridOnly(acc, piece, captured, from, to, original_pos) ==
  [self |-> [acc.self EXCEPT
      !.board = Put(Put(@, from[1], from[2], piece), to[1], to[2], captured)],
   ret |-> acc.eval]

AlphaBetaRestore_MarksMoved(acc, piece, captured, from, to, original_pos) ==
  [self |-> [acc.self EXCEPT
      !.board = Put(Put(@, from[1], from[2], piece), to[1], to[2], captured),
      !.pieces[piece].row = original_pos[1],
      !.pieces[piece].col = original_pos[2],
      !.pieces[piece].has_moved = TRUE],
   ret |-> acc.eval]

AlphaBetaRestore(acc, piece, captured, from, to, original_pos) ==
  [self |-> [acc.self EXCEPT
      !.board = Put(Put(@, from[1], from[2], piece), to[1], to[2], captured),
      !.pieces[piece].row = original_pos[1],
      !.pieces[piece].col = original_pos[2]],
   ret |-> acc.eval]

RECURSIVE AlphaBeta(_, _, _, _, _, _, _, _)
\* the loops of _alpha_beta over the ordered moves lo..hi in this order (the
\* first half of the range, then the second), left at "beta <= alpha"
RECURSIVE AlphaBetaRange(_, _, _, _, _, _, _)
AlphaBetaRange(acc, ai_color, moves, lo, hi, depth, maximizing) ==
  IF lo > hi \/ acc.cut THEN acc
  ELSE IF lo = hi
  THEN AlphaBetaUpdate(acc,
         AlphaBeta(acc.self, ai_color, moves[lo][1], moves[lo][2], depth - 1,
                   acc.alpha, acc.beta, ~maximizing),
         maximizing)
  ELSE AlphaBetaRange(
         AlphaBetaRange(acc, ai_color, moves, lo, (lo + hi) \div 2, depth,
                        maximizing),
         ai_color, moves, (lo + hi) \div 2 + 1, hi, depth, maximizing)

\* the loops of _alpha_beta over the ordered moves from move i on
AlphaBetaLoop(acc, ai_color, moves, i, depth, maximizing) ==
  AlphaBetaRange(acc, ai_color, moves, i, Len(moves), depth, maximizing)

\* _alpha_beta after the temporary move: g is what get_all_possible_moves
\* returned for the side that answers
AlphaBetaAnswers(g, ai_color, depth, alpha, beta, maximizing) ==
  AlphaBetaLoop([self |-> g.self,
                 eval |-> IF maximizing THEN NegInf ELSE PosInf,
                 alpha |-> alpha,
                 beta |-> beta,
                 cut |-> FALSE],
                ai_color, OrderMoves(g.self, g.ret), 1, depth, maximizing)

\* ChessAI._alpha_beta
AlphaBeta(self, ai_color, from, to, depth, alpha, beta, maximizing) ==
  IF depth = 0 THEN EvaluatePositionAdvanced(self, ai_color)
  ELSE LET piece == At(self.board, from[1], from[2])
           captured == At(self.board, to[1], to[2])
           original_pos == <<self.pieces[piece].row, self.pieces[piece].col>>
           applied == [self EXCEPT
             !.board = Put(Put(@, to[1], to[2], piece), from[1], from[2], None),
             !.pieces[piece].row = to[1],
             !.pieces[piece].col = to[2]]
       IN  AlphaBetaRestore(
             AlphaBetaAnswers(
               GetAllPossibleMoves(applied,
                 IF maximizing THEN Other(ai_color) ELSE ai_color),
               ai_color, depth, alpha, beta, maximizing),
             piece, captured, from, to, original_pos)

\* the body of the loop over the moves in _get_minimax_move: res is what
\* _alpha_beta returned for the move;
\* acc = [self, best_move, best_score, current_best, alpha, left, cut,
\* scored], left the searches the clock still allows, scored the calls made
\* so far: the depth, the move, the score returned, whether the move became
\* current_best, and best_score after it
MinimaxUpdate(acc, move, depth, res) ==
  [self |-> res.self,
   best_move |-> acc.best_move,
   best_score |-> Max(acc.best_score, res.ret),
   current_best |-> IF res.ret > acc.best_score THEN move ELSE acc.current_best,
   alpha |-> Max(acc.alpha, res.ret),
   left |-> acc.left - 1,
   cut |-> PosInf <= Max(acc.alpha, res.ret),
   scored |-> Append(acc.scored,
                [depth |-> depth, move |-> move, score |-> res.ret,
                 replaced |-> res.ret > acc.best_score,
                 best_score |-> Max(acc.best_score, res.ret)])]

\* the loop over the moves in _get_minimax_move from move i on: it ends with
\* the list, when the time limit has passed, or on "beta <= alpha"
RECURSIVE MinimaxMoves(_, _, _, _, _)
MinimaxMoves(acc, ai_color, moves, depth, i) ==
  IF i > Len(moves) \/ acc.left = 0 \/ acc.cut THEN acc
  ELSE MinimaxMoves(
         MinimaxUpdate(acc, moves[i], depth,
           AlphaBeta(acc.self, ai_color, moves[i][1], moves[i][2], depth,
                     acc.alpha, PosInf, TRUE)),
         ai_color, moves, depth, i + 1)

\* mutant of MinimaxStartDepth: best_score starts anew with each depth
MinimaxStartDepth_ResetsBest(acc) ==
  [acc EXCEPT !.current_best = <<>>, !.alpha = NegInf, !.cut = FALSE,
              !.best_score = NegInf]

\* the start of an iteration of the deepening loop: current_best, alpha and
\* beta are set anew, best_move and best_score are kept
MinimaxStartDepth(acc) ==
  [acc EXCEPT !.current_best = <<>>, !.alpha = NegInf, !.cut = FALSE]

\* the end of an iteration: "if current_best: best_move = current_best"
MinimaxEndDepth(acc) ==
  [acc EXCEPT !.best_move = IF acc.current_best # <<>> THEN acc.current_best
                            ELSE @]

\* mutant of MinimaxDepths: the loop goes one depth beyond max_depth
RECURSIVE MinimaxDepths_OneDeeper(_, _, _, _)
MinimaxDepths_OneDeeper(acc, ai_color, moves, depth) ==
  IF depth > MaxDepth + 1 \/ acc.left = 0 THEN acc
  ELSE MinimaxDepths_OneDeeper(
         MinimaxEndDepth(
           MinimaxMoves(MinimaxStartDepth(acc), ai_color, moves, depth, 1)),
         ai_color, moves, depth + 1)

\* the iterative deepening loop of _get_minimax_move from depth on: it ends
\* after max_depth or when the time limit has passed
RECURSIVE MinimaxDepths(_, _, _, _)
MinimaxDepths(acc, ai_color, moves, depth) ==
  IF depth > MaxDepth \/ acc.left = 0 THEN acc
  ELSE MinimaxDepths(
         MinimaxEndDepth(
           MinimaxMoves(MinimaxStartDepth(acc), ai_color, moves, depth, 1)),
         ai_color, moves, depth + 1)

\* the elements of a list
Choices(moves) == {moves[i] : i \in 1..Len(moves)}

\* mutant of GetRandomMove: the list is counted from its end
GetRandomMove_FromEnd(possible_moves, draw) ==
  possible_moves[Len(possible_moves) - draw]

\* ChessAI._get_random_move, random.choice(possible_moves): draw is the index
\* below len(possible_moves) that the random source produces
GetRandomMove(possible_moves, draw) == possible_moves[draw + 1]

\* what a call can return that takes no value from the random source:
\* draws is the list of the indexes drawn, ret the value returned
Returns(rets) == {[draws |-> <<>>, ret |-> ret] : ret \in rets}

\* what a call can return that ends in random.choice(moves)
RandomChoice(moves) ==
  {[draws |-> <<draw>>, ret |-> GetRandomMove(moves, draw)] :
     draw \in 0..(Len(moves) - 1)}

\* mutant of MinimaxResult: best_move is returned as it is, without the
\* random.choice that stands in for a search that found nothing
MinimaxResult_NoFallback(m, moves, budget) ==
  [self |-> m.self, searches |-> budget - m.left, allowed |-> budget,
   scored |-> m.scored, rets |-> Returns({m.best_move})]

\* the last line of _get_minimax_move: m is the state of the search at its end
MinimaxResult(m, moves, budget) ==
  [self |-> m.self,
   searches |-> budget - m.left,
   allowed |-> budget,
   scored |-> m.scored,
   rets |-> IF m.best_move # <<>> THEN Returns({m.best_move})
            ELSE RandomChoice(moves)]

\* ChessAI._get_minimax_move; budget is the number of _alpha_beta calls on
\* the moves of possible_moves that end before the time limit has passed,
\* searches the number of these calls that were made; the result names the
\* calls the time limit allowed (0 where no time limit is kept) and the
\* calls made
GetMinimaxMove(self, ai_color, moves, budget) ==
  MinimaxResult(
    MinimaxDepths([self |-> self,
                   best_move |-> <<>>,
                   best_score |-> NegInf,
                   current_best |-> <<>>,
                   alpha |-> NegInf,
                   left |-> budget,
                   cut |-> FALSE,
                   scored |-> <<>>],
                  ai_color, moves, 1),
    moves, budget)

\* ChessAI._evaluate_move without its random term, times 20
EvaluateMove(self, ai_color, from, to) ==
  LET piece == self.pieces[GetPiece(self, from[1], from[2])]
      target == GetPiece(self, to[1], to[2])
  IN  (IF target # None THEN PieceValues[self.pieces[target].piece_type] ELSE 0)
      + (IF to \in {<<3, 3>>, <<3, 4>>, <<4, 3>>, <<4, 4>>} THEN 10 ELSE 0)
      + (IF ai_color = "black" /\ from[1] = 0 /\ to[1] > 0 THEN 6
         ELSE IF ai_color = "white" /\ from[1] = 7 /\ to[1] < 7 THEN 6
         ELSE 0)
      - (IF piece.piece_type = "king" /\ ~piece.has_moved THEN 20 ELSE 0)
      + (IF piece.piece_type = "pawn"
         THEN (IF ai_color = "white" THEN (7 - to[1]) * 2 ELSE to[1] * 2)
         ELSE 0)

\* ChessAI._get_evaluated_move: random.uniform(-0.1, 0.1), 2 in the scores
\* here, is added to the score of each move, so a move can come out best
\* when its score is less than 4 below every other score
GetEvaluatedMove(self, ai_color, moves) ==
  [self |-> self,
   searches |-> 0,
   allowed |-> 0,
   scored |-> <<>>,
   rets |-> Returns({moves[i] : i \in
              {i \in 1..Len(moves) :
                 \A j \in 1..Len(moves) :
                   EvaluateMove(self, ai_color, moves[i][1], moves[i][2]) + 4
                     > EvaluateMove(self, ai_color, moves[j][1], moves[j][2])}})]

\* get_best_move after its get_all_possible_moves call, which returned g
GetBestMoveOf(g, ai_color, difficulty, budget) ==
  IF Len(g.ret) = 0
  THEN [self |-> g.self, searches |-> 0, allowed |-> 0, scored |-> <<>>,
        rets |-> Returns({<<>>})]
  ELSE IF difficulty = "easy"
  THEN [self |-> g.self, searches |-> 0, allowed |-> 0, scored |-> <<>>,
        rets |-> RandomChoice(g.ret)]
  ELSE IF difficulty = "medium" THEN GetEvaluatedMove(g.self, ai_color, g.ret)
  ELSE GetMinimaxMove(g.self, ai_color, g.ret, budget)

\* ChessAI.get_best_move of an AI of the color and the difficulty: the board
\* after the call and what the call can return: the indexes it drew from the
\* random source and the value returned (<<>> is None)
GetBestMoveCall(self, ai_color, difficulty, budget) ==
  GetBestMoveOf(GetAllPossibleMoves(self, ai_color), ai_color, difficulty, budget)

\* ------------------------------------------------------------ saved games
\* JSON null in the grid of a saved board
Null == [null |-> TRUE]

\* GameSerializer._serialize_board: the piece_data of each cell (type, color,
\* has_moved and the piece's own row and col) and three fields of the board
SerializeBoard(self) ==
  [board |->
     [row \in Rows |-> [col \in Rows |->
        LET piece == GetPiece(self, row, col)
        IN  IF piece # None
            THEN [type |-> self.pieces[piece].piece_type,
                  color |-> self.pieces[piece].color,
                  has_moved |-> self.pieces[piece].has_moved,
                  row |-> self.pieces[piece].row,
                  col |-> self.pieces[piece].col]
            ELSE Null]],
   current_player |-> self.current_player,
   game_over |-> self.game_over,
   winner |-> self.winner]

\* the pieces that restore_board_state has constructed when it is done with
\* cell AllCells[i]: one for each cell so far that holds piece_data
Constructed(board_data, i) ==
  Cardinality({j \in 1..i :
     board_data.board[AllCells[j][1]][AllCells[j][2]] # Null})

\* GameSerializer.restore_board_state: the grid is cleared, a new piece is
\* constructed for each piece_data from its color, row and col, in row-major
\* order, its has_moved is set, and three fields of the board are assigned;
\* move_history is not written
RestoreBoardState(self, board_data) ==
  [self EXCEPT
     !.board =
       [row \in Rows |-> [col \in Rows |->
          IF board_data.board[row][col] # Null
          THEN Constructed(board_data, 8 * row + col + 1)
          ELSE None]],
     !.pieces =
       [p \in 1..Constructed(board_data, 64) |->
          LET i == CHOOSE i \in 1..64 :
                     /\ Constructed(board_data, i) = p
                     /\ board_data.board[AllCells[i][1]][AllCells[i][2]] # Null
              piece_data == board_data.board[AllCells[i][1]][AllCells[i][2]]
          IN  [piece_type |-> piece_data.type,
               color |-> piece_data.color,
               row |-> piece_data.row,
               col |-> piece_data.col,
               has_moved |-> piece_data.has_moved]],
     !.current_player = board_data.current_player,
     !.game_over = board_data.game_over,
     !.winner = board_data.winner]

\* ------------------------------------------------------------------ state
VARIABLES
  board,           \* ChessBoard.board: the 8x8 grid of piece references
  pieces,          \* the piece objects: piece_type, color, row, col, has_moved
  current_player,  \* ChessBoard.current_player
  game_over,       \* ChessBoard.game_over
  winner,          \* ChessBoard.winner
  move_history,    \* ChessBoard.move_history
  last,            \* the last make_move / reset_game call and what it returned
  n_success,       \* successful make_move calls since construction / reset_game
  steps,           \* state-changing calls made since the start of the run
  gui              \* EnhancedChessGUI around the board: the color and the
                   \* difficulty of its ChessAI, the games begun, the AI
                   \* threads that are running, the callbacks handed to
                   \* root.after; where the clocks or the network are
                   \* modelled, its game_timer, its network

vars == <<board, pieces, current_player, game_over, winner, move_history,
          last, n_success, steps, gui>>

\* the ChessBoard object held in the variables
Self ==
  [board |-> board,
   pieces |-> pieces,
   current_player |-> current_player,
   game_over |-> game_over,
   winner |-> winner,
   move_history |-> move_history]

\* the variables take the fields of the object b
Becomes(b) ==
  /\ board' = b.board
  /\ pieces' = b.pieces
  /\ current_player' = b.current_player
  /\ game_over' = b.game_over
  /\ winner' = b.winner
  /\ move_history' = b.move_history

\* one more call of a line of play: r is what make_move returned
Played(acc, r) ==
  [self |-> r.self, n |-> IF r.ret[1] THEN acc.n + 1 ELSE acc.n]

\* the successive make_move calls lo..hi of a line of play (the first half
\* of the range, then the second), for as long as they succeed:
\* acc = [self |-> the board so far, n |-> the calls that succeeded so far]
RECURSIVE PlayRange(_, _, _, _)
PlayRange(acc, line, lo, hi) ==
  IF lo > hi \/ acc.n < lo - 1 THEN acc
  ELSE IF lo = hi
  THEN Played(acc, MakeMoveCall(acc.self, line[lo][1], line[lo][2],
                                line[lo][3], line[lo][4]))
  ELSE PlayRange(PlayRange(acc, line, lo, (lo + hi) \div 2),
                 line, (lo + hi) \div 2 + 1, hi)

\* the successive make_move calls of a line of play, from move i on, for as
\* long as they succeed
Play(acc, line, i) == PlayRange(acc, line, i, Len(line))

\* A game of 24 moves from the initial layout, <<from_row, from_col, to_row,
\* to_col>> each: it ends with white to move, a white knight beside the black
\* king, and mate, stalemate and ordinary moves one move away.
MiddleGame ==
  << <<7, 6, 5, 7>>, <<0, 6, 2, 5>>, <<6, 6, 7, 6>>, <<2, 5, 4, 4>>,
     <<7, 1, 5, 2>>, <<4, 4, 3, 2>>, <<5, 7, 4, 5>>, <<0, 1, 2, 2>>,
     <<6, 1, 7, 1>>, <<2, 2, 3, 0>>, <<7, 2, 6, 1>>, <<3, 2, 4, 4>>,
     <<4, 5, 2, 4>>, <<0, 7, 0, 6>>, <<2, 4, 3, 6>>, <<4, 4, 6, 3>>,
     <<7, 4, 6, 3>>, <<1, 7, 0, 7>>, <<3, 6, 1, 5>>, <<0, 0, 0, 1>>,
     <<6, 2, 7, 2>>, <<3, 0, 5, 1>>, <<7, 3, 5, 1>>, <<1, 0, 0, 0>> >>

\* MiddleGame and the knight move that mates black: a game that is over
MatedGame == Append(MiddleGame, <<1, 5, 2, 3>>)

\* the lines of play the runs start after: none (a new board), MiddleGame
\* and MatedGame
Openings == { <<>>, MiddleGame, MatedGame }

\* the run starts with the board and the count of a played line
StartsAfter(played) ==
  /\ board = played.self.board
  /\ pieces = played.self.pieces
  /\ current_player = played.self.current_player
  /\ game_over = played.self.game_over
  /\ winner = played.self.winner
  /\ move_history = played.self.move_history
  /\ last = [op |-> "__init__", ret |-> <<>>]
  /\ n_success = played.n
  /\ steps = 0
  /\ gui = [ai_color |-> "black", difficulty |-> "medium", games |-> 0,
            threads |-> <<>>, scheduled |-> <<>>]

Init ==
  \E line \in Openings : StartsAfter(Play([self |-> NewBoard, n |-> 0], line, 1))

\* ---------------------------------------------------------------- actions
\* make_move returns r: the board and the bookkeeping of the run
MakeMoveReturns(r) ==
  /\ Becomes(r.self)
  /\ last' = [op |-> "make_move", ret |-> r.ret]
  /\ n_success' = IF r.ret[1] THEN n_success + 1 ELSE n_success
  /\ steps' = IF r.ret[1] THEN steps + 1 ELSE steps
  /\ UNCHANGED gui

\* make_move goes on after its checks, within the bound on the run's length
MakeMoveGoesOn(checked, from_row, from_col, to_row, to_col) ==
  /\ checked.ret = <<>> => steps < MaxSteps
  /\ MakeMoveReturns(MakeMoveAfterChecks(checked, from_row, from_col,
                                         to_row, to_col))

\* board.make_move(from_row, from_col, to_row, to_col)
MakeMove(from_row, from_col, to_row, to_col) ==
  MakeMoveGoesOn(MakeMoveChecks(Self, from_row, from_col, to_row, to_col),
                 from_row, from_col, to_row, to_col)

\* board.reset_game()
ResetGame ==
  /\ steps < MaxSteps
  /\ Becomes(NewBoard)
  /\ last' = [op |-> "reset_game", ret |-> <<>>]
  /\ n_success' = 0
  /\ steps' = steps + 1
  /\ UNCHANGED gui

\* board.get_all_possible_moves(color)
GetMoves(color) ==
  /\ Becomes(GetAllPossibleMoves(Self, color).self)
  /\ UNCHANGED <<last, n_success, steps, gui>>

\* board.is_in_check(color): it reads the board and writes nothing
InCheck(color) ==
  /\ IsInCheck(Self, color) \in BOOLEAN
  /\ UNCHANGED vars

\* board.is_checkmate(color)
Checkmate(color) ==
  /\ Becomes(IsCheckmate(Self, color).self)
  /\ UNCHANGED <<last, n_success, steps, gui>>

\* board.is_stalemate(color)
Stalemate(color) ==
  /\ Becomes(IsStalemate(Self, color).self)
  /\ UNCHANGED <<last, n_success, steps, gui>>

\* the return of get_best_move: r is the board after the call and the values
\* the call can return
GetBestMoveReturns(r, color, difficulty) ==
  /\ Becomes(r.self)
  /\ \E returned \in r.rets :
       last' = [op |-> "get_best_move", color |-> color,
                difficulty |-> difficulty, searches |-> r.searches,
                allowed |-> r.allowed, scored |-> r.scored,
                draws |-> returned.draws,
                ret |-> returned.ret]

\* ChessAI(color, difficulty).get_best_move(board): the board is searched,
\* budget is how far the search gets before its time limit
GetBestMove(color, difficulty, budget) ==
  /\ steps < MaxSteps
  /\ GetBestMoveReturns(GetBestMoveCall(Self, color, difficulty, budget),
                        color, difficulty)
  /\ steps' = steps + 1
  /\ UNCHANGED <<n_success, gui>>

\* the return of an _alpha_beta call on a move of the list: r is the board
\* after the call and the score returned
AlphaBetaReturns(r, color, move, depth) ==
  /\ Becomes(r.self)
  /\ last' = [op |-> "_alpha_beta", color |-> color, from |-> move[1],
              to |-> move[2], depth |-> depth, ret |-> r.ret]

\* the _alpha_beta call of _get_minimax_move on the i-th of the moves g.ret
\* that get_all_possible_moves returned, with alpha and beta as the
\* deepening loop sets them before its first move
AlphaBetaOf(g, color, i, depth) ==
  /\ i <= Len(g.ret)
  /\ AlphaBetaReturns(AlphaBeta(g.self, color, g.ret[i][1], g.ret[i][2], depth,
                                NegInf, PosInf, TRUE),
                      color, g.ret[i], depth)

\* ChessAI(color, 'hard')._alpha_beta(board, from_pos, to_pos, depth,
\* float('-inf'), float('inf'), True) on the i-th possible move
AlphaBetaSearch(color, i, depth) ==
  /\ steps < MaxSteps
  /\ AlphaBetaOf(GetAllPossibleMoves(Self, color), color, i, depth)
  /\ steps' = steps + 1
  /\ UNCHANGED <<n_success, gui>>

Next ==
  \/ \E from_row \in Coord, from_col \in Coord, to_row \in Coord, to_col \in Coord :
       MakeMove(from_row, from_col, to_row, to_col)
  \/ ResetGame
  \/ \E color \in Colors : GetMoves(color)
  \/ \E color \in Colors : InCheck(color)
  \/ \E color \in Colors : Checkmate(color)
  \/ \E color \in Colors : Stalemate(color)

Spec == Init /\ [][Next]_vars

\* the board with the computer opponent searching it
NextAI ==
  \/ Next
  \/ \E color \in Colors, difficulty \in {"easy", "medium", "hard"},
        budget \in 0..MaxSearches :
       GetBestMove(color, difficulty, budget)

SpecAI == Init /\ [][NextAI]_vars

\* the boards that _alpha_beta is called on: the board after each of the
\* first MaxOpeningLen moves of MiddleGame, the new board included
InitAB ==
  \E n \in 0..MaxOpeningLen :
    StartsAfter(Play([self |-> NewBoard, n |-> 0], SubSeq(MiddleGame, 1, n), 1))

NextAB ==
  \E color \in Colors, i \in 1..MaxRootMoves, depth \in 1..MaxSearchDepth :
    /\ depth = MaxSearchDepth
         => i <= MaxDeepRootMoves /\ Len(move_history) <= MaxDeepOpeningLen
    /\ AlphaBetaSearch(color, i, depth)

\* _alpha_beta called on the possible moves of the boards of an opening
SpecAB == InitAB /\ [][NextAB]_vars

\* ---------------------------------------------------------- the application
\* EnhancedChessGUI in the mode human_vs_ai. Its handlers run one at a time on
\* the main thread; each make_ai_move starts a thread that runs
\* ai.get_best_move(self.board) beside them. A thread is the record of the
\* locals of its _alpha_beta call between the temporary move and its
\* restoration (piece = None outside of them).

\* the bounds of a run of the application: the new games and successful
\* moves, the AI threads alive at a time, and the possible moves (the first
\* of the list) that a thread tries and returns
MaxGuiSteps == 2
MaxThreads == 2
MaxThreadMoves == 1

\* a thread that has no temporary move on the board
Searching ==
  [piece |-> None, captured |-> None, from |-> <<>>, to |-> <<>>,
   original_pos |-> <<>>]

\* a list without its i-th element
RemoveAt(list, i) == SubSeq(list, 1, i - 1) \o SubSeq(list, i + 1, Len(list))

\* reset_game on the board of game number games: setup_initial_position
\* constructs 32 new pieces; the pieces of the games before stay referenced
\* by the threads that hold them
ResetBoard(self, games) ==
  [board |-> [row \in Rows |-> [col \in Rows |->
                IF InitialGrid[row][col] = None THEN None
                ELSE InitialGrid[row][col] + 32 * games]],
   pieces |-> [p \in DOMAIN self.pieces \cup ((32 * games + 1)..(32 * games + 32)) |->
                IF p > 32 * games THEN InitialPieces[p - 32 * games]
                ELSE self.pieces[p]],
   current_player |-> "white",
   game_over |-> FALSE,
   winner |-> NoWinner,
   move_history |-> <<>>]

\* EnhancedChessGUI.new_game: reset_game, a new ChessAI, and make_ai_move
\* handed to root.after when the AI plays white
NewGame ==
  /\ steps < MaxGuiSteps
  /\ Becomes(ResetBoard(Self, gui.games + 1))
  /\ gui' = [gui EXCEPT
       !.games = @ + 1,
       !.scheduled = IF gui.ai_color = "white"
                     THEN Append(@, [fn |-> "make_ai_move"]) ELSE @]
  /\ last' = [op |-> "new_game", ret |-> <<>>]
  /\ n_success' = 0
  /\ steps' = steps + 1

\* on_mouse_up after make_move returned r: when the move succeeded, the game
\* goes on and it is the AI's turn, make_ai_move is handed to root.after
HumanMoveReturns(r) ==
  /\ r.ret[1] => steps < MaxGuiSteps
  /\ Becomes(r.self)
  /\ gui' = [gui EXCEPT
       !.scheduled = IF /\ r.ret[1]
                        /\ ~r.self.game_over
                        /\ r.self.current_player = gui.ai_color
                     THEN Append(@, [fn |-> "make_ai_move"]) ELSE @]
  /\ last' = [op |-> "on_mouse_up", ret |-> r.ret]
  /\ n_success' = IF r.ret[1] THEN n_success + 1 ELSE n_success
  /\ steps' = IF r.ret[1] THEN steps + 1 ELSE steps

\* on_mouse_down on a piece of the side to move, which is not the AI's, and
\* on_mouse_up on a cell of the board: make_move
HumanMove(from_row, from_col, to_row, to_col) ==
  /\ ~game_over
  /\ current_player # gui.ai_color
  /\ board[from_row][from_col] # None
  /\ pieces[board[from_row][from_col]].color = current_player
  /\ HumanMoveReturns(MakeMoveCall(Self, from_row, from_col, to_row, to_col))

\* EnhancedChessGUI.make_ai_move, the i-th callback: a thread is started
\* unless the game is over
MakeAiMove(i) ==
  /\ i <= Len(gui.scheduled)
  /\ gui.scheduled[i].fn = "make_ai_move"
  /\ ~game_over => Len(gui.threads) < MaxThreads
  /\ gui' = [gui EXCEPT
       !.scheduled = RemoveAt(@, i),
       !.threads = IF game_over THEN @ ELSE Append(@, Searching)]
  /\ last' = [op |-> "make_ai_move", ret |-> <<>>]
  /\ UNCHANGED <<board, pieces, current_player, game_over, winner,
                 move_history, n_success, steps>>

\* thread t, in _alpha_beta, makes its temporary move: the i-th of the moves
\* g.ret that get_all_possible_moves returned
SearchAppliesOf(g, t, i) ==
  /\ i <= Len(g.ret)
  /\ LET from == g.ret[i][1]
         to == g.ret[i][2]
         piece == At(g.self.board, from[1], from[2])
     IN  /\ board' = Put(Put(g.self.board, to[1], to[2], piece),
                         from[1], from[2], None)
         /\ pieces' = [g.self.pieces EXCEPT ![piece].row = to[1],
                                            ![piece].col = to[2]]
         /\ gui' = [gui EXCEPT !.threads[t] =
              [piece |-> piece,
               captured |-> At(g.self.board, to[1], to[2]),
               from |-> from,
               to |-> to,
               original_pos |-> <<g.self.pieces[piece].row,
                                  g.self.pieces[piece].col>>]]

\* "Make temporary move" of _alpha_beta on thread t
SearchApplies(t, i) ==
  /\ t <= Len(gui.threads)
  /\ gui.threads[t].piece = None
  /\ SearchAppliesOf(GetAllPossibleMoves(Self, gui.ai_color), t, i)
  /\ last' = [op |-> "_alpha_beta", ret |-> <<>>]
  /\ UNCHANGED <<current_player, game_over, winner, move_history, n_success,
                 steps>>

\* "Restore board state" of _alpha_beta on thread t, from the locals of the
\* call
SearchRestores(t) ==
  /\ t <= Len(gui.threads)
  /\ gui.threads[t].piece # None
  /\ LET locals == gui.threads[t]
     IN  /\ board' = Put(Put(board, locals.from[1], locals.from[2], locals.piece),
                         locals.to[1], locals.to[2], locals.captured)
         /\ pieces' = [pieces EXCEPT
              ![locals.piece].row = locals.original_pos[1],
              ![locals.piece].col = locals.original_pos[2]]
  /\ gui' = [gui EXCEPT !.threads[t] = Searching]
  /\ last' = [op |-> "_alpha_beta", ret |-> <<>>]
  /\ UNCHANGED <<current_player, game_over, winner, move_history, n_success,
                 steps>>

\* ai_move_thread after get_best_move returned: execute_ai_move is handed to
\* root.after with the move, the i-th of the moves g.ret, unless there is
\* none; the thread ends
SearchReturnsOf(g, t, i) ==
  /\ i <= Len(g.ret) \/ (i = 1 /\ Len(g.ret) = 0)
  /\ Becomes(g.self)
  /\ gui' = [gui EXCEPT
       !.threads = RemoveAt(@, t),
       !.scheduled = IF Len(g.ret) = 0 THEN @
                     ELSE Append(@, [fn |-> "execute_ai_move",
                                     from |-> g.ret[i][1], to |-> g.ret[i][2]])]

\* get_best_move returns on thread t
SearchReturns(t, i) ==
  /\ t <= Len(gui.threads)
  /\ gui.threads[t].piece = None
  /\ SearchReturnsOf(GetAllPossibleMoves(Self, gui.ai_color), t, i)
  /\ last' = [op |-> "get_best_move", ret |-> <<>>]
  /\ UNCHANGED <<n_success, steps>>

\* execute_ai_move after make_move returned r
ExecuteAiMoveReturns(r, i) ==
  /\ r.ret[1] => steps < MaxGuiSteps
  /\ Becomes(r.self)
  /\ gui' = [gui EXCEPT !.scheduled = RemoveAt(@, i)]
  /\ last' = [op |-> "execute_ai_move", ret |-> r.ret]
  /\ n_success' = IF r.ret[1] THEN n_success + 1 ELSE n_success
  /\ steps' = IF r.ret[1] THEN steps + 1 ELSE steps

\* EnhancedChessGUI.execute_ai_move, the i-th callback
ExecuteAiMove(i) ==
  /\ i <= Len(gui.scheduled)
  /\ gui.scheduled[i].fn = "execute_ai_move"
  /\ ExecuteAiMoveReturns(
       MakeMoveCall(Self, gui.scheduled[i].from[1], gui.scheduled[i].from[2],
                    gui.scheduled[i].to[1], gui.scheduled[i].to[2]), i)

\* the application after on_mode_change chose human_vs_ai, with the AI of
\* either color, on the new board
InitGUI ==
  /\ board = NewBoard.board
  /\ pieces = NewBoard.pieces
  /\ current_player = NewBoard.current_player
  /\ game_over = NewBoard.game_over
  /\ winner = NewBoard.winner
  /\ move_history = NewBoard.move_history
  /\ last = [op |-> "__init__", ret |-> <<>>]
  /\ n_success = 0
  /\ steps = 0
  /\ \E ai_color \in Colors :
       gui = [ai_color |-> ai_color, difficulty |-> "medium", games |-> 0,
              threads |-> <<>>, scheduled |-> <<>>]

NextGUI ==
  \/ NewGame
  \/ \E from_row \in Rows, from_col \in Rows, to_row \in Rows, to_col \in Rows :
       HumanMove(from_row, from_col, to_row, to_col)
  \/ \E i \in 1..Len(gui.scheduled) : MakeAiMove(i)
  \/ \E i \in 1..Len(gui.scheduled) : ExecuteAiMove(i)
  \/ \E t \in 1..Len(gui.threads), i \in 1..MaxThreadMoves : SearchApplies(t, i)
  \/ \E t \in 1..Len(gui.threads) : SearchRestores(t)
  \/ \E t \in 1..Len(gui.threads), i \in 1..MaxThreadMoves : SearchReturns(t, i)

SpecGUI == InitGUI /\ [][NextGUI]_vars

\* ------------------------------------------------- the settings of the AI
\* values that reach ChessAI(color, difficulty) and set_difficulty: the three
\* levels and strings that are none of them
Levels ==
  {"easy", "medium", "hard", "Easy", "HARD", "expert", "impossible", "none", ""}

\* mutant of SetDifficultyCall: the value is stored whatever it is
SetDifficultyCall_Any(ai, difficulty) == [ai EXCEPT !.difficulty = difficulty]

\* ChessAI.set_difficulty on the object ai: the object after the call
SetDifficultyCall(ai, difficulty) ==
  IF difficulty \in {"easy", "medium", "hard"}
  THEN [ai EXCEPT !.difficulty = difficulty]
  ELSE ai

\* ai.set_difficulty(difficulty)
SetDifficulty(difficulty) ==
  /\ gui' = SetDifficultyCall(gui, difficulty)
  /\ last' = [op |-> "set_difficulty", difficulty |-> difficulty, ret |-> <<>>]
  /\ UNCHANGED <<board, pieces, current_player, game_over, winner,
                 move_history, n_success, steps>>

\* ChessAI(color, difficulty) beside a new board: __init__ stores the two
\* values as they are
InitSettings ==
  /\ board = NewBoard.board
  /\ pieces = NewBoard.pieces
  /\ current_player = NewBoard.current_player
  /\ game_over = NewBoard.game_over
  /\ winner = NewBoard.winner
  /\ move_history = NewBoard.move_history
  /\ last = [op |-> "__init__", ret |-> <<>>]
  /\ n_success = 0
  /\ steps = 0
  /\ \E color \in Colors, difficulty \in Levels :
       gui = [ai_color |-> color, difficulty |-> difficulty, games |-> 0,
              threads |-> <<>>, scheduled |-> <<>>]

NextSettings == \E difficulty \in Levels : SetDifficulty(difficulty)

\* a ChessAI and the set_difficulty calls on it
SpecSettings == InitSettings /\ [][NextSettings]_vars

\* ------------------------------------------------------ the rules of a piece
\* The rules of the pieces called one at a time, on the boards of the games
\* above and on boards that restore_board_state sets up from the data of a
\* saved game: a piece on the cell SetUpCell and at most MaxOthers pawns on
\* the cells OtherCells.

MaxOthers == 2
SetUpCell == <<3, 3>>
OtherCells == { <<4, 3>>, <<5, 3>>, <<2, 3>>, <<4, 4>>, <<5, 5>> }
PieceTypes == {"pawn", "rook", "knight", "bishop", "queen", "king"}

\* the piece_data of a saved piece that stands on the cell it believes in
PieceData(type, color, has_moved, cell) ==
  [type |-> type, color |-> color, has_moved |-> has_moved,
   row |-> cell[1], col |-> cell[2]]

\* the board data of a saved game: a piece on SetUpCell and, on each cell
\* of the domain of others, an unmoved pawn of the color others gives
SetUpData(type, color, has_moved, others) ==
  [board |->
     [row \in Rows |-> [col \in Rows |->
        IF <<row, col>> = SetUpCell
        THEN PieceData(type, color, has_moved, SetUpCell)
        ELSE IF <<row, col>> \in DOMAIN others
        THEN PieceData("pawn", others[<<row, col>>], FALSE, <<row, col>>)
        ELSE Null]],
   current_player |-> "white",
   game_over |-> FALSE,
   winner |-> NoWinner]

\* the boards the rules are called on
InitPieces ==
  \/ Init
  \/ \E type \in PieceTypes, color \in Colors, has_moved \in BOOLEAN,
        cells \in {c \in SUBSET OtherCells : Cardinality(c) <= MaxOthers} :
       /\ has_moved => type = "pawn"
       /\ \E others \in [cells -> Colors] :
            StartsAfter([self |-> RestoreBoardState(NewBoard,
                           SetUpData(type, color, has_moved, others)),
                         n |-> 0])

\* board.board[row][col].is_valid_move(new_row, new_col, board.board)
IsValidMoveCall(row, col, new_row, new_col) ==
  /\ steps < MaxSteps
  /\ board[row][col] # None
  /\ last' = [op |-> "is_valid_move",
              piece |-> board[row][col],
              to |-> <<new_row, new_col>>,
              ret |-> IsValidMove(pieces, board, board[row][col],
                                  new_row, new_col)]
  /\ steps' = steps + 1
  /\ UNCHANGED <<board, pieces, current_player, game_over, winner,
                 move_history, n_success, gui>>

NextPieces ==
  /\ steps < MaxSteps
  /\ \E row \in Rows, col \in Rows, new_row \in Rows, new_col \in Rows :
       IsValidMoveCall(row, col, new_row, new_col)

\* the rules of the pieces, one call a run
SpecPieces == InitPieces /\ [][NextPieces]_vars

\* ---------------------------------------------------- the search in depth
\* The hard opponent searching boards with few pieces, which
\* restore_board_state sets up from the data of a saved game, for as many
\* _alpha_beta calls on root moves as its time limit allows, up to
\* MaxDeepSearches.
MaxDeepSearches == 13

\* the piece_data of a saved piece that has moved
Placed(type, color, cell) == PieceData(type, color, TRUE, cell)

\* the two kings in their corners, a white pawn and a black pawn on bp
PawnEndgame(bp) ==
  { Placed("king", "white", <<7, 7>>), Placed("king", "black", <<0, 0>>),
    Placed("pawn", "white", <<3, 3>>), Placed("pawn", "black", bp) }

\* the black king in its corner behind three black pawns, none of which has
\* a move, and the white king
BoxedKing ==
  { Placed("king", "white", <<7, 7>>), Placed("king", "black", <<0, 0>>),
    Placed("pawn", "black", <<0, 1>>), Placed("pawn", "black", <<1, 0>>),
    Placed("pawn", "black", <<1, 1>>) }

Endgames ==
  {PawnEndgame(bp) : bp \in { <<4, 4>>, <<4, 2>>, <<5, 3>> }} \cup {BoxedKing}

\* the board data of a saved game with the pieces placed and player to move
EndgameData(placed, player) ==
  [board |->
     [row \in Rows |-> [col \in Rows |->
        IF \E p \in placed : p.row = row /\ p.col = col
        THEN CHOOSE p \in placed : p.row = row /\ p.col = col
        ELSE Null]],
   current_player |-> player,
   game_over |-> FALSE,
   winner |-> NoWinner]

InitDeep ==
  \E placed \in Endgames, player \in Colors :
    StartsAfter([self |-> RestoreBoardState(NewBoard,
                            EndgameData(placed, player)),
                 n |-> 0])

NextDeep ==
  \E color \in Colors, budget \in 0..MaxDeepSearches :
    GetBestMove(color, "hard", budget)

\* the hard opponent on the boards of an endgame
SpecDeep == InitDeep /\ [][NextDeep]_vars

\* ------------------------------------------------------------ mate in one
\* the boxed-in black king with a white knight on the cell, which mates from
\* (1, 2) and from (2, 1), and the black pawns on the cells of free, which
\* have moves
KnightMate(knight, free) ==
  BoxedKing \cup {Placed("knight", "white", knight)}
            \cup {Placed("pawn", "black", cell) : cell \in free}

MateBoards ==
  {KnightMate(knight, free) :
     knight \in { <<3, 3>>, <<3, 1>> }, free \in { {}, { <<5, 0>> } }}

InitMate ==
  \E placed \in MateBoards, player \in Colors :
    StartsAfter([self |-> RestoreBoardState(NewBoard,
                            EndgameData(placed, player)),
                 n |-> 0])

NextMate ==
  \E color \in Colors, budget \in 0..MaxDeepSearches :
    GetBestMove(color, "hard", budget)

\* the hard opponent on boards with a mate in one
SpecMate == InitMate /\ [][NextMate]_vars

\* ------------------------------------------------------ the scores as doubles
\* Python's float is the IEEE 754 double: 53 significant bits, every sum and
\* product rounded to the nearest double, ties to the even one. A double of
\* the evaluation is a sign and a magnitude counted in units of 2^-57 (every
\* double here is a multiple of it and below 2^15), the magnitude written
\* <<hi, mid, lo>> in base 2^24.
Limb == 16777216

DoubleZero == [neg |-> FALSE, mag |-> <<0, 0, 0>>]

\* the double of an integer: n * 2^57 = (n * 2^9) * 2^48
DoubleOfInt(n) ==
  [neg |-> n < 0, mag |-> <<Abs(n) * 512, 0, 0>>]

\* the literal 0.1, the double 0x1.999999999999ap-4
Tenth == [neg |-> FALSE, mag |-> <<51, 3355443, 3355444>>]

\* the literal 0.05, the double 0x1.999999999999ap-5
Twentieth == [neg |-> FALSE, mag |-> <<25, 10066329, 10066330>>]

MagAdd(x, y) ==
  LET lo == x[3] + y[3]
      mid == x[2] + y[2] + lo \div Limb
  IN  <<x[1] + y[1] + mid \div Limb, mid % Limb, lo % Limb>>

\* x - y for x >= y
MagSub(x, y) ==
  LET lo == x[3] - y[3]
      mid == x[2] - y[2] - (IF lo < 0 THEN 1 ELSE 0)
  IN  <<x[1] - y[1] - (IF mid < 0 THEN 1 ELSE 0), mid % Limb, lo % Limb>>

MagLess(x, y) ==
  \/ x[1] < y[1]
  \/ x[1] = y[1] /\ x[2] < y[2]
  \/ x[1] = y[1] /\ x[2] = y[2] /\ x[3] < y[3]

\* the number of bits of n < 2^24
BitLen(n) == CHOOSE k \in 0..24 : n < 2 ^ k /\ (k = 0 \/ n >= 2 ^ (k - 1))

MagBits(x) ==
  IF x[1] > 0 THEN 48 + BitLen(x[1])
  ELSE IF x[2] > 0 THEN 24 + BitLen(x[2])
  ELSE BitLen(x[3])

\* the magnitude rounded to 53 significant bits, ties to even: the bits
\* dropped are fewer than 24 and lie in lo
MagRound(x) ==
  LET drop == MagBits(x) - 53
  IN  IF drop <= 0 THEN x
      ELSE LET d == 2 ^ drop
               r == x[3] % d
               up == \/ 2 * r > d
                     \/ 2 * r = d /\ (x[3] \div d) % 2 = 1
           IN  IF up THEN MagAdd(<<x[1], x[2], x[3] - r>>, <<0, 0, d>>)
               ELSE <<x[1], x[2], x[3] - r>>

DoubleNeg(x) ==
  IF x.mag = <<0, 0, 0>> THEN x ELSE [neg |-> ~x.neg, mag |-> x.mag]

\* the exact sum of two doubles
ExactSum(x, y) ==
  IF x.neg = y.neg THEN [neg |-> x.neg, mag |-> MagAdd(x.mag, y.mag)]
  ELSE IF x.mag = y.mag THEN DoubleZero
  ELSE IF MagLess(x.mag, y.mag)
  THEN [neg |-> y.neg, mag |-> MagSub(y.mag, x.mag)]
  ELSE [neg |-> x.neg, mag |-> MagSub(x.mag, y.mag)]

\* x + y and x - y of Python floats
DoubleAdd(x, y) ==
  LET sum == ExactSum(x, y)
  IN  [neg |-> sum.neg, mag |-> MagRound(sum.mag)]

DoubleSub(x, y) == DoubleAdd(x, DoubleNeg(y))

\* k times the magnitude, exactly, for k >= 0
RECURSIVE MagTimes(_, _)
MagTimes(x, k) ==
  IF k = 0 THEN <<0, 0, 0>> ELSE MagAdd(x, MagTimes(x, k - 1))

\* k * x of Python for an int k and a float x
DoubleTimes(k, x) ==
  IF k = 0 THEN DoubleZero
  ELSE [neg |-> (k < 0) # x.neg, mag |-> MagRound(MagTimes(x.mag, Abs(k)))]

\* ChessAI._get_position_bonus as the double it returns
GetPositionBonusDouble(piece, row, col) ==
  LET center_distance == (Abs(7 - 2 * row) + Abs(7 - 2 * col)) \div 2
  IN  CASE piece.piece_type = "pawn" ->
             IF piece.color = "white" THEN DoubleTimes(7 - row, Tenth)
             ELSE DoubleTimes(row, Tenth)
        [] piece.piece_type = "knight" -> DoubleTimes(4 - center_distance, Tenth)
        [] piece.piece_type = "bishop" ->
             DoubleTimes(7 - center_distance, Twentieth)
        [] piece.piece_type = "king" -> DoubleTimes(0 - center_distance, Tenth)
        [] OTHER -> DoubleZero

\* the material loop of _evaluate_position_advanced from the i-th cell on,
\* in the order of the loop: score += total_value or score -= total_value
RECURSIVE MaterialDouble(_, _, _, _)
MaterialDouble(self, ai_color, i, score) ==
  IF i > 64 THEN score
  ELSE LET piece == self.board[AllCells[i][1]][AllCells[i][2]]
       IN  IF piece = None THEN MaterialDouble(self, ai_color, i + 1, score)
           ELSE LET total_value ==
                      DoubleAdd(
                        DoubleOfInt(PieceValues[self.pieces[piece].piece_type]
                                      \div 20),
                        GetPositionBonusDouble(self.pieces[piece],
                                               AllCells[i][1], AllCells[i][2]))
                IN  MaterialDouble(self, ai_color, i + 1,
                      IF self.pieces[piece].color = ai_color
                      THEN DoubleAdd(score, total_value)
                      ELSE DoubleSub(score, total_value))

\* ChessAI._evaluate_position_advanced as the double it returns: the
\* material, then the king safety of the AI's color added and that of the
\* other color subtracted, then the mobility added
EvaluatePositionDouble(self, ai_color) ==
  DoubleAdd(
    DoubleSub(
      DoubleAdd(MaterialDouble(self, ai_color, 1, DoubleZero),
                DoubleOfInt(EvaluateKingSafety(self, ai_color) * 2)),
      DoubleOfInt(EvaluateKingSafety(self, Other(ai_color)) * 2)),
    DoubleTimes(Len(GetAllPossibleMoves(self, ai_color).ret)
                  - Len(GetAllPossibleMoves(self, Other(ai_color)).ret),
                Tenth))

\* ------------------------------------------------- the evaluation of a board
\* the pieces of the saved games that are evaluated: every board holds some
\* of them
EvalPieces ==
  { Placed("king", "white", <<7, 4>>), Placed("king", "black", <<0, 4>>),
    Placed("pawn", "white", <<6, 4>>), Placed("pawn", "white", <<6, 5>>),
    Placed("pawn", "black", <<1, 3>>), Placed("knight", "white", <<4, 4>>),
    Placed("bishop", "black", <<3, 1>>), Placed("bishop", "white", <<7, 5>>) }

InitEval ==
  \E placed \in SUBSET EvalPieces, player \in Colors :
    StartsAfter([self |-> RestoreBoardState(NewBoard,
                            EndgameData(placed, player)),
                 n |-> 0])

\* ChessAI(color)._evaluate_position_advanced(board): r is the board after
\* the call and the score returned in exact arithmetic, times 20; double is
\* the float returned
EvaluationReturns(r, double, color) ==
  /\ Becomes(r.self)
  /\ last' = [op |-> "_evaluate_position_advanced", color |-> color,
              ret |-> r.ret, double |-> double]

EvaluatePosition(color) ==
  /\ steps < MaxSteps
  /\ EvaluationReturns(EvaluatePositionAdvanced(Self, color),
                       EvaluatePositionDouble(Self, color), color)
  /\ steps' = steps + 1
  /\ UNCHANGED <<n_success, gui>>

NextEval == \E color \in Colors : EvaluatePosition(color)

\* the evaluation of the boards of saved games, one call a run
SpecEval == InitEval /\ [][NextEval]_vars

\* -------------------------------------------------------------- the clocks
\* gui.game_timer is the GameTimer object with the two threads that use it.
\* Times are whole ticks. time holds white_time and black_time; thread is
\* timer_thread with its position in _timer_loop and the locals now and
\* elapsed of _update_current_time ("none" before the first thread, "left"
\* once the loop is left and the thread not yet ended, "dead" after); main
\* is the thread that calls the methods, with its position in the call it
\* is in; each has the locals now and elapsed of _update_current_time and
\* player, the branch it took there; clock is time.time(). owed counts, for each color, the ticks that
\* passed while it was the current player of a running, unpaused timer;
\* granted the increments it was given; time_up the calls of on_time_up,
\* each with the clock the player had left.
MaxNow == 2
MaxTimerCalls == 3
MaxClock == 2

\* GameTimer.__init__
NewTimer(white_time, black_time, increment) ==
  [time |-> [white |-> white_time, black |-> black_time],
   initial_time |-> [white |-> white_time, black |-> black_time],
   increment |-> increment,
   current_player |-> "white",
   is_running |-> FALSE,
   is_paused |-> FALSE,
   last_update |-> 0,
   thread |-> [pc |-> "none", now |-> 0, elapsed |-> 0, player |-> "white"],
   main |-> [pc |-> "idle", op |-> "", new_player |-> "white",
             now |-> 0, elapsed |-> 0, player |-> "white"],
   clock |-> 0,
   owed |-> [white |-> 0, black |-> 0],
   granted |-> [white |-> 0, black |-> 0],
   time_up |-> <<>>]

\* _update_current_time in the thread who ("thread" or "main"), which takes
\* no lock, in three steps: now and elapsed are taken and the branch on
\* current_player is chosen,
UpdateRead(t, who, next) ==
  [t EXCEPT ![who].now = t.clock,
            ![who].elapsed = t.clock - t.last_update,
            ![who].player = t.current_player,
            ![who].pc = next]

\* the clock of that branch is cut by elapsed, not below 0,
UpdateWrite(t, who, next) ==
  [t EXCEPT !.time[t[who].player] =
              Max(0, t.time[t[who].player] - t[who].elapsed),
            ![who].pc = next]

\* and last_update is set to now
UpdateStamp(t, who, next) ==
  [t EXCEPT !.last_update = t[who].now, ![who].pc = next]

\* the thread is alive: started and not ended
IsAlive(t) == t.thread.pc \notin {"none", "dead"}

\* GameTimer.start_timer
StartTimer(t, player) ==
  [t EXCEPT !.current_player = player,
            !.is_running = TRUE,
            !.is_paused = FALSE,
            !.last_update = t.clock,
            !.thread = IF IsAlive(t) THEN t.thread
                       ELSE [pc |-> "loop", now |-> 0, elapsed |-> 0,
                             player |-> "white"]]

\* GameTimer.stop_timer
StopTimer(t) == [t EXCEPT !.is_running = FALSE, !.is_paused = FALSE]

\* GameTimer.reset_timer()
ResetTimer(t) ==
  [StopTimer(t) EXCEPT !.time = t.initial_time,
                       !.current_player = "white",
                       !.owed = [white |-> 0, black |-> 0],
                       !.granted = [white |-> 0, black |-> 0]]

\* GameTimer.resume_timer
ResumeTimer(t) ==
  IF t.is_paused
  THEN [t EXCEPT !.is_paused = FALSE, !.last_update = t.clock]
  ELSE t

\* the main thread enters pause_timer or switch_player: with the timer
\* running (and, for switch_player, not paused) it goes through
\* _update_current_time, else to the end of the call
EnterCall(t, op, new_player) ==
  [t EXCEPT !.main =
     [pc |-> IF t.is_running /\ (op = "pause_timer" \/ ~t.is_paused)
             THEN "read"
             ELSE IF op = "pause_timer" THEN "idle" ELSE "switch",
      op |-> op, new_player |-> new_player, now |-> 0, elapsed |-> 0,
      player |-> "white"]]

\* after _update_current_time: pause_timer sets is_paused; switch_player
\* adds the increment to the player who moved
AfterUpdate(t) ==
  IF t.main.op = "pause_timer"
  THEN [t EXCEPT !.is_paused = TRUE, !.main.pc = "idle"]
  ELSE [t EXCEPT !.time[t.current_player] =
                   t.time[t.current_player] + t.increment,
                 !.granted[t.current_player] =
                   t.granted[t.current_player] + t.increment,
                 !.main.pc = "switch"]

\* the end of switch_player
SwitchPlayerEnds(t) ==
  [t EXCEPT !.current_player = t.main.new_player,
            !.last_update = t.clock,
            !.main.pc = "idle"]

\* the next statement of the main thread inside a call
MainStep(t) ==
  CASE t.main.pc = "read" -> UpdateRead(t, "main", "write")
    [] t.main.pc = "write" -> UpdateWrite(t, "main", "stamp")
    [] t.main.pc = "stamp" -> AfterUpdate(UpdateStamp(t, "main", "after"))
    [] t.main.pc = "switch" -> SwitchPlayerEnds(t)

\* _timer_loop, "if self.get_current_time() <= 0": the timer stops and the
\* thread goes on to the callback, or it sleeps
CheckTimeUp(t) ==
  IF t.time[t.current_player] <= 0
  THEN [t EXCEPT !.is_running = FALSE, !.thread.pc = "notify"]
  ELSE [t EXCEPT !.thread.pc = "sleep"]

\* the next statement of the timer thread
ThreadStep(t) ==
  CASE t.thread.pc = "loop" ->
         [t EXCEPT !.thread.pc = IF ~t.is_running THEN "left"
                                 ELSE IF t.is_paused THEN "sleep"
                                 ELSE "read"]
    [] t.thread.pc = "read" -> UpdateRead(t, "thread", "write")
    [] t.thread.pc = "write" -> UpdateWrite(t, "thread", "stamp")
    [] t.thread.pc = "stamp" -> CheckTimeUp(UpdateStamp(t, "thread", "check"))
    [] t.thread.pc = "notify" ->
         [t EXCEPT !.time_up = Append(t.time_up,
                                 [player |-> t.current_player,
                                  left |-> t.time[t.current_player]]),
                   !.thread.pc = "left"]
    [] t.thread.pc = "sleep" -> [t EXCEPT !.thread.pc = "loop"]
    [] t.thread.pc = "left" -> [t EXCEPT !.thread.pc = "dead"]

\* a tick of time.time()
Tick(t) ==
  [t EXCEPT !.clock = t.clock + 1,
            !.owed[t.current_player] =
              IF t.is_running /\ ~t.is_paused
              THEN t.owed[t.current_player] + 1
              ELSE t.owed[t.current_player]]

\* the timer becomes t by the step op
TimerBecomes(t, op) ==
  /\ gui' = [gui EXCEPT !.game_timer = t]
  /\ last' = [op |-> op, ret |-> <<>>]
  /\ UNCHANGED <<board, pieces, current_player, game_over, winner,
                 move_history, n_success>>

\* a call of the main thread that is one step: start_timer, stop_timer,
\* reset_timer, resume_timer
TimerCall(op, player) ==
  /\ gui.game_timer.main.pc = "idle"
  /\ steps < MaxTimerCalls
  /\ steps' = steps + 1
  /\ TimerBecomes(CASE op = "start_timer" -> StartTimer(gui.game_timer, player)
                    [] op = "stop_timer" -> StopTimer(gui.game_timer)
                    [] op = "reset_timer" -> ResetTimer(gui.game_timer)
                    [] op = "resume_timer" -> ResumeTimer(gui.game_timer),
                  op)

\* the main thread calls pause_timer or switch_player(new_player)
TimerEnter(op, new_player) ==
  /\ gui.game_timer.main.pc = "idle"
  /\ steps < MaxTimerCalls
  /\ steps' = steps + 1
  /\ TimerBecomes(EnterCall(gui.game_timer, op, new_player), op)

\* the main thread goes on in its call
TimerMain ==
  /\ gui.game_timer.main.pc # "idle"
  /\ TimerBecomes(MainStep(gui.game_timer), gui.game_timer.main.op)
  /\ UNCHANGED steps

\* the timer thread goes on
TimerThread ==
  /\ gui.game_timer.thread.pc \notin {"none", "dead"}
  /\ TimerBecomes(ThreadStep(gui.game_timer), "_timer_loop")
  /\ UNCHANGED steps

\* time passes
TimerTick ==
  /\ gui.game_timer.clock < MaxNow
  /\ TimerBecomes(Tick(gui.game_timer), "time")
  /\ UNCHANGED steps

\* the GUI with its GameTimer constructed
InitTimer ==
  \E white_time \in 1..MaxClock, black_time \in 1..MaxClock,
     increment \in {0, 1} :
    /\ board = NewBoard.board
    /\ pieces = NewBoard.pieces
    /\ current_player = "white"
    /\ game_over = FALSE
    /\ winner = NoWinner
    /\ move_history = <<>>
    /\ last = [op |-> "__init__", ret |-> <<>>]
    /\ n_success = 0
    /\ steps = 0
    /\ gui = [ai_color |-> "black", difficulty |-> "medium", games |-> 0,
              threads |-> <<>>, scheduled |-> <<>>,
              game_timer |-> NewTimer(white_time, black_time, increment)]

\* EnhancedChessGUI.toggle_pause
TogglePause ==
  IF gui.game_timer.is_paused
  THEN TimerCall("resume_timer", "white")
  ELSE TimerEnter("pause_timer", "white")

\* the first start_timer of a game, with no timer thread yet
FirstStart ==
  /\ gui.game_timer.thread.pc = "none"
  /\ \E player \in Colors : TimerCall("start_timer", player)

\* the timer started once and then only switched, paused and resumed
NextClock ==
  \/ FirstStart
  \/ TogglePause
  \/ \E new_player \in Colors : TimerEnter("switch_player", new_player)
  \/ TimerMain
  \/ TimerThread
  \/ TimerTick

\* the clocks of a game that is not stopped or reset
SpecClock == InitTimer /\ [][NextClock]_vars

NextTimer ==
  \/ \E player \in Colors : TimerCall("start_timer", player)
  \/ \E op \in {"stop_timer", "reset_timer"} : TimerCall(op, "white")
  \/ TogglePause
  \/ \E new_player \in Colors : TimerEnter("switch_player", new_player)
  \/ TimerMain
  \/ TimerThread
  \/ TimerTick

\* the clocks with the timer thread and the thread that calls the timer
SpecTimer == InitTimer /\ [][NextTimer]_vars

\* -------------------------------------------------------------- the network
\* gui.network holds the NetworkManager of this program (local), which
\* sends moves, the NetworkManager of the opponent's program (peer), which
\* receives them, and the TCP connection between them: stream is what was
\* sent and is not yet read, in order, closed whether the peer has closed
\* its socket. A NetworkManager is its fields is_connected and running,
\* listening (its listener thread is in the loop of _listen_for_messages)
\* and the calls it made of on_move_received and on_connection_lost. sent
\* lists the moves for which send_move returned True.
MaxSends == 3

\* the moves that are sent: from, to, piece_type
NetMoves ==
  {[from |-> <<6, 4>>, to |-> <<4, 4>>, piece |-> "pawn"],
   [from |-> <<1, 4>>, to |-> <<3, 4>>, piece |-> "pawn"]}

\* NetworkManager after connect_to_server, or after _accept_connections
Connected ==
  [is_connected |-> TRUE, running |-> TRUE, listening |-> TRUE,
   received |-> <<>>, lost |-> 0]

\* json.dumps(message).encode('utf-8') for the message of send_move: the
\* bytes of one JSON object, here its first and its second half, so that
\* a read can end inside it
Encode(move) == <<[of |-> move, half |-> 1], [of |-> move, half |-> 2]>>

\* json.loads(data.decode('utf-8')) returns a message: data is one whole
\* JSON object; on anything less or more it raises
Loads(data) == Len(data) = 2 /\ data = Encode(data[1].of)

\* _handle_connection_lost
HandleConnectionLost(self) ==
  [self EXCEPT !.is_connected = FALSE, !.lost = self.lost + 1]

\* _handle_message for a message of type 'move'
HandleMessage(self, data) ==
  [self EXCEPT !.received = Append(self.received, data[1].of)]

\* one round of the loop of _listen_for_messages in which recv returned
\* data: data is loaded and handled, or the exception ends the loop, with
\* the connection reported lost if the manager is running
Listen(self, data) ==
  IF data # <<>> /\ Loads(data)
  THEN HandleMessage(self, data)
  ELSE [(IF data = <<>> \/ self.running
         THEN HandleConnectionLost(self) ELSE self)
        EXCEPT !.listening = FALSE]

\* disconnect
Disconnected(self) ==
  [self EXCEPT !.running = FALSE, !.is_connected = FALSE,
               !.listening = FALSE]

\* the network becomes n by the call op that returned ret
NetBecomes(n, op, ret) ==
  /\ gui' = [gui EXCEPT !.network = n]
  /\ last' = [op |-> op, ret |-> ret]
  /\ UNCHANGED <<board, pieces, current_player, game_over, winner,
                 move_history, n_success>>

\* send_move(from_pos, to_pos, piece_type) of the local manager: False
\* without a connection; else the bytes go to the socket and it returns
\* True, or, the peer's socket being closed, send may raise, which ends
\* the connection
SendMove(move, raises) ==
  /\ steps < MaxSends
  /\ steps' = steps + 1
  /\ raises => gui.network.closed /\ gui.network.local.is_connected
  /\ NetBecomes(
       IF ~gui.network.local.is_connected THEN gui.network
       ELSE IF raises
       THEN [gui.network EXCEPT !.local = HandleConnectionLost(@)]
       ELSE [gui.network EXCEPT
               !.stream = IF gui.network.closed THEN @
                          ELSE @ \o Encode(move),
               !.sent = Append(@, move)],
       "send_move",
       gui.network.local.is_connected /\ ~raises)

\* the listener thread of the peer: recv(1024) returns the next n bytes of
\* the stream, any number from 1 to what has arrived
PeerListens(n) ==
  /\ gui.network.peer.listening
  /\ n \in 1..Len(gui.network.stream)
  /\ NetBecomes([gui.network EXCEPT
                   !.stream = SubSeq(@, n + 1, Len(@)),
                   !.peer = Listen(@, SubSeq(gui.network.stream, 1, n))],
                "_listen_for_messages", <<>>)
  /\ UNCHANGED steps

\* the peer calls disconnect and closes its socket
PeerDisconnects ==
  /\ gui.network.peer.running
  /\ NetBecomes([gui.network EXCEPT !.peer = Disconnected(@),
                                    !.closed = TRUE,
                                    !.stream = <<>>],
                "disconnect", <<>>)
  /\ UNCHANGED steps

\* the listener thread of the local manager: recv returns b'' once the
\* peer has closed
LocalListens ==
  /\ gui.network.local.listening
  /\ gui.network.closed
  /\ NetBecomes([gui.network EXCEPT !.local = Listen(@, <<>>)],
                "_listen_for_messages", <<>>)
  /\ UNCHANGED steps

\* the two programs connected, nothing sent
InitNet ==
  /\ board = NewBoard.board
  /\ pieces = NewBoard.pieces
  /\ current_player = "white"
  /\ game_over = FALSE
  /\ winner = NoWinner
  /\ move_history = <<>>
  /\ last = [op |-> "connect_to_server", ret |-> TRUE]
  /\ n_success = 0
  /\ steps = 0
  /\ gui = [ai_color |-> "black", difficulty |-> "medium", games |-> 0,
            threads |-> <<>>, scheduled |-> <<>>,
            network |-> [local |-> Connected, peer |-> Connected,
                         stream |-> <<>>, closed |-> FALSE, sent |-> <<>>]]

NextNet ==
  \/ \E move \in NetMoves, raises \in BOOLEAN : SendMove(move, raises)
  \/ \E n \in 1..(2 * MaxSends) : PeerListens(n)
  \/ PeerDisconnects
  \/ LocalListens

\* moves sent from one program to the other
SpecNet == InitNet /\ [][NextNet]_vars

\* ------------------------------------------------------- notions of the claims
\* the ChessBoard object after the step
SelfNext ==
  [board |-> board',
   pieces |-> pieces',
   current_player |-> current_player',
   game_over |-> game_over',
   winner |-> winner',
   move_history |-> move_history']

\* the board with the piece of cell from moved to cell to (what was on to is
\* gone): "after applying the move"
AfterMove(self, from, to) ==
  LET piece == self.board[from[1]][from[2]]
  IN  [self EXCEPT
        !.board[to[1]][to[2]] = piece,
        !.board[from[1]][from[2]] = None,
        !.pieces[piece].row = to[1],
        !.pieces[piece].col = to[2]]

\* a king of the color stands on a cell that the movement rule of an opposing
\* piece reaches
KingAttacked(self, color) ==
  \E kr \in Rows, kc \in Rows, row \in Rows, col \in Rows :
    LET king == self.board[kr][kc]
        piece == self.board[row][col]
    IN  /\ king # None
        /\ self.pieces[king].piece_type = "king"
        /\ self.pieces[king].color = color
        /\ piece # None
        /\ self.pieces[piece].color # color
        /\ IsValidMove(self.pieces, self.board, piece, kr, kc)

\* the color has a legal move: a move its movement rules allow that leaves
\* its own king unattacked
HasLegalMove(self, color) ==
  \E row \in Rows, col \in Rows, to_row \in Rows, to_col \in Rows :
    LET piece == self.board[row][col]
    IN  /\ piece # None
        /\ self.pieces[piece].color = color
        /\ IsValidMove(self.pieces, self.board, piece, to_row, to_col)
        /\ ~KingAttacked(AfterMove(self, <<row, col>>, <<to_row, to_col>>), color)

\* the step is a make_move call that succeeds
SuccessfulMove == n_success' = n_success + 1

\* --------------------------------------------------------------------- C1
\* C1: for either color, the side to move or not, no move returned by
\* get_all_possible_moves(color) leaves color's own king attacked once it is
\* applied.
C1_NoSelfCheck ==
  \A color \in Colors :
    LET moves == GetAllPossibleMoves(Self, color).ret
    IN  \A i \in 1..Len(moves) :
          ~KingAttacked(AfterMove(Self, moves[i][1], moves[i][2]), color)

\* --------------------------------------------------------------------- C2
\* C2: a make_move call that returns success = false, whatever its
\* coordinates, leaves the grid, every piece's row, col and has_moved,
\* current_player, game_over, winner and move_history as they were, and it
\* returns a result: it does not raise.
C2_FailedMoveChangesNothing ==
  [][(last'.op = "make_move" /\ ~last'.ret[1])
       => /\ UNCHANGED <<board, pieces, current_player, game_over, winner,
                         move_history>>
          /\ last'.ret # Raised]_vars

\* a make_move call was refused after its trial move on the board
C2_Witness ==
  last = [op |-> "make_move", ret |-> <<FALSE, "Move would put king in check">>]

\* --------------------------------------------------------------------- C3
\* C3: a successful make_move hands the turn to the other color, no other
\* call but reset_game changes current_player, and current_player is white
\* exactly when the number of successful moves since the last reset is even.
C3_TurnAlternation ==
  /\ [](current_player = "white" <=> n_success % 2 = 0)
  /\ [][/\ SuccessfulMove => current_player' = Other(current_player)
        /\ current_player' # current_player
             => SuccessfulMove \/ last'.op = "reset_game"]_vars

\* black is to move after the 25th successful move of a game
C3_Witness ==
  /\ last = [op |-> "make_move", ret |-> <<TRUE, "Move successful">>]
  /\ n_success = 25
  /\ current_player = "black"

\* --------------------------------------------------------------------- C4
\* what C4 says make_move returns: the message of the first check that
\* fails, in the fixed order, "Move successful" when none fails
FirstFailingCheck(self, from_row, from_col, to_row, to_col) ==
  LET piece == IF IsValidPosition(from_row, from_col)
               THEN self.board[from_row][from_col] ELSE None
  IN  IF piece = None
      THEN <<FALSE, "No piece at source position">>
      ELSE IF self.pieces[piece].color # self.current_player
      THEN <<FALSE, "Not your piece">>
      ELSE IF ~IsValidPosition(to_row, to_col)
      THEN <<FALSE, "Invalid destination">>
      ELSE IF ~IsValidMove(self.pieces, self.board, piece, to_row, to_col)
      THEN <<FALSE, "Invalid move for this piece">>
      ELSE IF KingAttacked(AfterMove(self, <<from_row, from_col>>,
                                     <<to_row, to_col>>),
                           self.current_player)
      THEN <<FALSE, "Move would put king in check">>
      ELSE <<TRUE, "Move successful">>

\* C4: make_move reports the first failing check in the order source empty or
\* off the grid, piece of the side not to move, destination off the grid,
\* movement pattern rejected, own king attacked after the move; it reports
\* "Move successful" only when no check fails.
C4_FirstFailingCheckReported ==
  \A from_row \in Coord, from_col \in Coord, to_row \in Coord, to_col \in Coord :
    MakeMoveCall(Self, from_row, from_col, to_row, to_col).ret
      = FirstFailingCheck(Self, from_row, from_col, to_row, to_col)

\* a call was answered "Not your piece" although its destination is off the
\* grid as well
C4_Witness ==
  /\ last = [op |-> "make_move", ret |-> <<FALSE, "Not your piece">>]
  /\ \E from_row \in Rows, from_col \in Rows, to_row \in Coord, to_col \in Coord :
       /\ ~IsValidPosition(to_row, to_col)
       /\ MakeMoveCall(Self, from_row, from_col, to_row, to_col).ret = last.ret

\* --------------------------------------------------------------------- C5
\* what C5 says of a successful make_move(from, to)
MoveEffect(from_row, from_col, to_row, to_col) ==
  LET piece == board[from_row][from_col]
  IN  /\ board'[to_row][to_col] = piece
      /\ board'[from_row][from_col] = None
      /\ \A row \in Rows, col \in Rows :
           (<<row, col>> # <<from_row, from_col>> /\ <<row, col>> # <<to_row, to_col>>)
             => board'[row][col] = board[row][col]
      /\ pieces'[piece].row = to_row
      /\ pieces'[piece].col = to_col
      /\ pieces'[piece].has_moved
      /\ Len(move_history') = Len(move_history) + 1
      /\ move_history'[Len(move_history')] =
           [from |-> <<from_row, from_col>>,
            to |-> <<to_row, to_col>>,
            piece |-> piece,
            captured |-> board[to_row][to_col],
            player |-> pieces[piece].color]

\* C5: after a successful make_move(from, to) the destination holds the moved
\* piece, the source is empty, the other cells are unchanged, the piece's
\* row and col are the destination and has_moved is true, and the record
\* appended to move_history has from, to, the piece, what stood on the
\* destination before, and the color that moved.
C5_SuccessfulMoveEffect ==
  [][SuccessfulMove =>
       \A from_row \in Coord, from_col \in Coord, to_row \in Coord, to_col \in Coord :
         MakeMove(from_row, from_col, to_row, to_col)
           => MoveEffect(from_row, from_col, to_row, to_col)]_vars

\* a successful move that captured a piece
C5_Witness ==
  /\ last = [op |-> "make_move", ret |-> <<TRUE, "Move successful">>]
  /\ move_history[Len(move_history)].captured # None

\* --------------------------------------------------------------------- C6
\* C6: after every operation of the board (make_move that succeeds or
\* fails, get_all_possible_moves, is_in_check, is_checkmate, is_stalemate,
\* reset_game) and after get_best_move has returned, every occupied cell
\* (row, col) holds a piece whose row is row and whose col is col, and no
\* piece occupies two cells.
C6_GridPieceAgreement ==
  /\ \A row \in Rows, col \in Rows :
       board[row][col] # None =>
         /\ pieces[board[row][col]].row = row
         /\ pieces[board[row][col]].col = col
  /\ \A cell \in Rows \X Rows, other \in Rows \X Rows :
       (board[cell[1]][cell[2]] # None
          /\ board[cell[1]][cell[2]] = board[other[1]][other[2]])
         => cell = other

\* a search of the hard opponent has returned a move for the side that is
\* not to move, after the 24 moves of the middle game: the search has moved
\* pieces, captured with them, and put them back
C6_Witness ==
  /\ last.op = "get_best_move"
  /\ last.difficulty = "hard"
  /\ last.searches = MaxSearches
  /\ last.color = "black"
  /\ last.ret # <<>>
  /\ Len(move_history) = Len(MiddleGame)

\* --------------------------------------------------------------------- C7
\* the kings of a color on the grid
Kings(color) ==
  {rc \in Rows \X Rows :
     /\ board[rc[1]][rc[2]] # None
     /\ pieces[board[rc[1]][rc[2]]].piece_type = "king"
     /\ pieces[board[rc[1]][rc[2]]].color = color}

\* C7: in every state reached from the initial layout by make_move calls the
\* grid holds exactly one white king and exactly one black king.
C7_OneKingEach ==
  \A color \in Colors : Cardinality(Kings(color)) = 1

\* a move has just mated the black king, which still stands on the grid
C7_Witness ==
  /\ last = [op |-> "make_move", ret |-> <<TRUE, "Move successful">>]
  /\ game_over
  /\ winner = "white"
  /\ KingAttacked(Self, "black")

\* --------------------------------------------------------------------- C8
\* C8: the length of move_history is the number of successful make_move
\* calls since construction or the last reset_game; a successful call appends
\* one record and keeps the records there were, reset_game empties the
\* history, and every other call leaves it as it was.
C8_HistoryAppendOnly ==
  /\ [](Len(move_history) = n_success)
  /\ [][IF SuccessfulMove
        THEN /\ Len(move_history') = Len(move_history) + 1
             /\ SubSeq(move_history', 1, Len(move_history)) = move_history
        ELSE IF last'.op = "reset_game" /\ steps' # steps
        THEN move_history' = <<>>
        ELSE move_history' = move_history]_vars

\* the 25th record was appended to the history of a game
C8_Witness ==
  /\ last = [op |-> "make_move", ret |-> <<TRUE, "Move successful">>]
  /\ Len(move_history) = 25
  /\ move_history[25].player = "white"

\* --------------------------------------------------------------------- C9
\* C9: after a successful make_move, if the new side to move is checkmated
\* the game is over and the winner is the color that moved; if it is
\* stalemated the game is over and the winner is "draw"; otherwise game_over
\* and winner are as before. And game_over holds exactly when winner is set.
C9_TerminalDetection ==
  /\ [](game_over <=> winner # NoWinner)
  /\ [][SuccessfulMove =>
          IF ~HasLegalMove(SelfNext, current_player')
          THEN /\ game_over'
               /\ winner' = IF KingAttacked(SelfNext, current_player')
                            THEN current_player ELSE "draw"
          ELSE game_over' = game_over /\ winner' = winner]_vars

\* a move has just stalemated the other side
C9_Witness ==
  /\ last = [op |-> "make_move", ret |-> <<TRUE, "Move successful">>]
  /\ game_over
  /\ winner = "draw"

\* -------------------------------------------------------------------- C10
\* C10: for either color, is_checkmate(color) is true exactly when color's
\* king is attacked and color has no legal move, is_stalemate(color) exactly
\* when the king is not attacked and color has no legal move, and the two
\* are never both true.
C10_CheckmateStalemate ==
  \A color \in Colors :
    /\ IsCheckmate(Self, color).ret
         = (KingAttacked(Self, color) /\ ~HasLegalMove(Self, color))
    /\ IsStalemate(Self, color).ret
         = (~KingAttacked(Self, color) /\ ~HasLegalMove(Self, color))
    /\ ~(IsCheckmate(Self, color).ret /\ IsStalemate(Self, color).ret)

\* -------------------------------------------------------------------- C11
\* C11: on a board just constructed or reset, get_all_possible_moves('white')
\* returns exactly 20 moves: 16 pawn moves, each of the 8 white pawns
\* advancing one square or two, and 4 knight moves.
C11_StartingMoveCount ==
  Self = NewBoard =>
    LET moves == GetAllPossibleMoves(Self, "white").ret
        OfType(piece_type) ==
          {i \in 1..Len(moves) :
             pieces[board[moves[i][1][1]][moves[i][1][2]]].piece_type = piece_type}
    IN  /\ Len(moves) = 20
        /\ Cardinality(OfType("pawn")) = 16
        /\ Cardinality(OfType("knight")) = 4
        /\ \A col \in Rows, ahead \in {1, 2} :
             \E i \in 1..Len(moves) : moves[i] = <<<<6, col>>, <<6 - ahead, col>>>>

\* -------------------------------------------------------------------- C12
\* the calls of fool's mate: 1. f3 e5 2. g4 Qh4
FoolsMate ==
  << <<6, 5, 5, 5>>, <<1, 4, 3, 4>>, <<6, 6, 4, 6>>, <<0, 3, 4, 7>> >>

\* all the calls of fool's mate succeeded and white is checkmated
FoolsMatePlayed(played) ==
  /\ played.n = Len(FoolsMate)
  /\ IsCheckmate(played.self, "white").ret
  /\ GetAllPossibleMoves(played.self, "white").ret = <<>>
  /\ played.self.game_over
  /\ played.self.winner = "black"

\* C12: from the initial layout, the four make_move calls of fool's mate
\* succeed in order, and afterwards is_checkmate('white') is true,
\* get_all_possible_moves('white') is empty, game_over is true and the
\* winner is black.
C12_FoolsMate ==
  Self = NewBoard => FoolsMatePlayed(Play([self |-> Self, n |-> 0], FoolsMate, 1))

\* -------------------------------------------------------------------- C13
\* the moves that the movement rules allow to the pieces on the board, of
\* either color
PseudoLegalMoves(self) ==
  {move \in (Rows \X Rows) \X (Rows \X Rows) :
     /\ self.board[move[1][1]][move[1][2]] # None
     /\ IsValidMove(self.pieces, self.board, self.board[move[1][1]][move[1][2]],
                    move[2][1], move[2][2])}

\* C13: for any pseudo-legal move, once would_be_in_check_after_move has
\* returned, and so once get_all_possible_moves, is_checkmate and
\* is_stalemate have returned, the grid, every piece's row, col and
\* has_moved (the moved piece and the displaced occupant included),
\* current_player, game_over, winner and move_history are what they were
\* before the call.
C13_TransientMoveReverted ==
  /\ \A move \in PseudoLegalMoves(Self) :
       WouldBeInCheckAfterMove(Self, move[1][1], move[1][2],
                               move[2][1], move[2][2]).self = Self
  /\ \A color \in Colors :
       /\ GetAllPossibleMoves(Self, color).self = Self
       /\ IsCheckmate(Self, color).self = Self
       /\ IsStalemate(Self, color).self = Self

\* make_move has just rejected a move that its piece's rule allows, after
\* would_be_in_check_after_move had made the move and taken it back, on a
\* board where some pseudo-legal capture leaves the king of the side to move
\* attacked while it is made
C13_Witness ==
  /\ last = [op |-> "make_move", ret |-> <<FALSE, "Move would put king in check">>]
  /\ \E move \in PseudoLegalMoves(Self) :
       /\ board[move[2][1]][move[2][2]] # None
       /\ WouldBeInCheckAfterMove(Self, move[1][1], move[1][2],
                                  move[2][1], move[2][2]).ret

\* -------------------------------------------------------------------- C14
\* the step is a get_best_move call that returns
BestMoveReturned == last'.op = "get_best_move" /\ steps' = steps + 1

NoneOrMember(ret, moves) ==
  IF Len(moves) = 0 THEN ret = <<>> ELSE ret \in Choices(moves)

C15_DeadlineWitness ==
  /\ last.op = "get_best_move"
  /\ last.difficulty = "hard"
  /\ last.searches = 0
  /\ last.ret # <<>>

\* -------------------------------------------------------------------- C16
\* the greatest and the least of a set of scores, minus and plus infinity for
\* the empty set
Greatest(scores) == CHOOSE x \in scores \cup {NegInf} : \A y \in scores : y <= x
Least(scores) == CHOOSE x \in scores \cup {PosInf} : \A y \in scores : x <= y

\* the recursion of _alpha_beta with its two break statements removed: the
\* position after the move is worth the greatest (maximizing) or the least
\* of the values of all the answers, a position at depth 0 its evaluation
RECURSIVE MinimaxValue(_, _, _, _, _, _)
MinimaxOver(applied, ai_color, moves, depth, maximizing) ==
  LET values == {MinimaxValue(applied, ai_color, moves[i][1], moves[i][2],
                              depth - 1, ~maximizing) : i \in 1..Len(moves)}
  IN  IF maximizing THEN Greatest(values) ELSE Least(values)

MinimaxValue(self, ai_color, from, to, depth, maximizing) ==
  IF depth = 0 THEN EvaluatePositionAdvanced(self, ai_color).ret
  ELSE MinimaxOver(AfterMove(self, from, to), ai_color,
         GetAllPossibleMoves(AfterMove(self, from, to),
           IF maximizing THEN Other(ai_color) ELSE ai_color).ret,
         depth, maximizing)

\* the step is the return of an _alpha_beta call on a possible move
AlphaBetaReturned == last'.op = "_alpha_beta" /\ steps' = steps + 1

\* C16: _alpha_beta called on a move with alpha minus infinity and beta plus
\* infinity leaves the board as it was and returns the value of the same
\* recursion without its cutoffs on that board, for every position, move and
\* depth of the runs.
C16_CutoffsKeepValue ==
  /\ [][AlphaBetaReturned =>
          UNCHANGED <<board, pieces, current_player, game_over, winner,
                      move_history>>]_vars
  /\ [](last.op = "_alpha_beta"
          => last.ret = MinimaxValue(Self, last.color, last.from, last.to,
                                     last.depth, TRUE))

\* the search of the second answer to the move, entered with the score of the
\* first answer as alpha, left its loop at "beta <= alpha"; depth is the
\* depth of the search of the move
SecondAnswerCut(applied, ai_color, answers, depth) ==
  /\ Len(answers) >= 2
  /\ AlphaBetaAnswers(
       GetAllPossibleMoves(AfterMove(applied, answers[2][1], answers[2][2]),
                           ai_color),
       ai_color, depth - 1,
       AlphaBeta(applied, ai_color, answers[1][1], answers[1][2], depth - 1,
                 NegInf, PosInf, FALSE).ret,
       PosInf, FALSE).cut

\* the answers to a move in the order _alpha_beta searches them
OrderedAnswers(applied, color) ==
  OrderMoves(applied, GetAllPossibleMoves(applied, color).ret)

\* an _alpha_beta call to depth 3 has returned, and its search made a cutoff
C16_Witness ==
  /\ last.op = "_alpha_beta"
  /\ last.depth = 3
  /\ SecondAnswerCut(AfterMove(Self, last.from, last.to), last.color,
       OrderedAnswers(AfterMove(Self, last.from, last.to), Other(last.color)),
       last.depth)

\* -------------------------------------------------------------------- C17
\* what the cells of a board hold: kind, color, row, col and has_moved of the
\* piece of each cell
GridContents(self) ==
  [row \in Rows |-> [col \in Rows |->
     IF self.board[row][col] = None THEN Null
     ELSE self.pieces[self.board[row][col]]]]

\* the moves of a board's history: cells, player, and kind and color of the
\* piece moved and of the piece captured
HistoryContents(self) ==
  [i \in 1..Len(self.move_history) |->
     LET move == self.move_history[i]
     IN  [from |-> move.from,
          to |-> move.to,
          player |-> move.player,
          piece |-> <<self.pieces[move.piece].piece_type,
                      self.pieces[move.piece].color>>,
          captured |-> IF move.captured = None THEN <<>>
                       ELSE <<self.pieces[move.captured].piece_type,
                              self.pieces[move.captured].color>>]]

\* a newly constructed board after restore_board_state has restored into it
\* what _serialize_board made of the board
RoundTrip(self) == RestoreBoardState(NewBoard, SerializeBoard(self))

\* the grid contents and the three board-level fields survive the round trip
RoundTripKeepsGrid ==
  /\ GridContents(RoundTrip(Self)) = GridContents(Self)
  /\ RoundTrip(Self).current_player = current_player
  /\ RoundTrip(Self).game_over = game_over
  /\ RoundTrip(Self).winner = winner

\* C17: the board that restore_board_state makes of a serialized board is
\* structurally equal to the original: the same kind, color, row, col and
\* has_moved of the piece in every cell, the same current_player, game_over
\* and winner, and the same move_history.
C17_RoundTrip ==
  /\ RoundTripKeepsGrid
  /\ Len(RoundTrip(Self).move_history) = Len(move_history)
  /\ HistoryContents(RoundTrip(Self)) = HistoryContents(Self)

\* -------------------------------------------------------------------- C18
\* C18: in the application, while a get_best_move call is in progress on an
\* AI thread, no second get_best_move runs against the board, and no step of
\* another thread (make_move, reset_game) changes the board: every change of
\* the board is a step of the one thread that searches it.
C18_ExclusiveAccess ==
  /\ [](Len(gui.threads) <= 1)
  /\ [][(gui.threads # <<>> /\ gui'.threads = gui.threads)
          => UNCHANGED <<board, pieces, current_player, game_over, winner,
                        move_history>>]_vars

\* -------------------------------------------------------------------- C19
\* the moves that the movement rules allow and that take a king
KingCaptures(self) ==
  {move \in PseudoLegalMoves(self) :
     /\ self.board[move[2][1]][move[2][2]] # None
     /\ self.pieces[self.board[move[2][1]][move[2][2]]].piece_type = "king"}

\* on a board b where the color has no king: find_king returns None,
\* is_in_check and is_checkmate return false, is_stalemate,
\* get_all_possible_moves and the evaluation return a value, the king safety
\* term is the penalty -100
HandlesMissingKing(b, color) ==
  /\ FindKing(b, color) = <<>>
  /\ ~IsInCheck(b, color)
  /\ ~IsCheckmate(b, color).ret
  /\ IsStalemate(b, color).ret \in BOOLEAN
  /\ EvaluateKingSafety(b, color) = -100
  /\ \A c \in Colors :
       /\ Len(GetAllPossibleMoves(b, c).ret) >= 0
       /\ EvaluatePositionAdvanced(b, c).ret \in Int

\* C19: on the board left by a move that takes the king of a color, find_king
\* returns None for it, is_in_check is false, and get_all_possible_moves,
\* is_checkmate, is_stalemate and the evaluation return without raising; on
\* every board is_in_check(color) is true exactly when the movement rule of
\* an opposing piece reaches the cell of the king of the color.
C19_MissingKing ==
  /\ \A color \in Colors : IsInCheck(Self, color) <=> KingAttacked(Self, color)
  /\ \A move \in KingCaptures(Self) :
       HandlesMissingKing(AfterMove(Self, move[1], move[2]),
                          pieces[board[move[2][1]][move[2][2]]].color)

\* white has mated with its last move: the movement rules let it take the
\* black king, which is attacked
C19_Witness ==
  /\ last = [op |-> "make_move", ret |-> <<TRUE, "Move successful">>]
  /\ game_over
  /\ winner = "white"
  /\ IsInCheck(Self, "black")
  /\ \E move \in KingCaptures(Self) :
       pieces[board[move[2][1]][move[2][2]]].color = "black"

\* -------------------------------------------------------------------- C20
\* C20: set_difficulty(level) sets the difficulty to level when level is
\* easy, medium or hard; for every other value it leaves the difficulty as
\* it was; it leaves the color of the AI as it was, and returns.
C20_SetDifficulty ==
  [][last'.op = "set_difficulty"
       => /\ gui'.difficulty =
               IF last'.difficulty \in {"easy", "medium", "hard"}
               THEN last'.difficulty ELSE gui.difficulty
          /\ gui'.ai_color = gui.ai_color
          /\ last'.ret # Raised]_vars

\* set_difficulty was called with a value that is no level, after a call
\* that had set the level hard on an AI constructed with another one
C20_Witness ==
  /\ last.op = "set_difficulty"
  /\ last.difficulty = "expert"
  /\ gui.difficulty = "hard"

Called == pieces[last.piece]
CalledFrom == <<Called.row, Called.col>>
CalledTarget == board[last.to[1]][last.to[2]]

\* the cells strictly between two cells of a row, a column or a diagonal
Between(from, to) ==
  {cell \in Rows \X Rows :
     /\ cell # from /\ cell # to
     /\ Min(from[1], to[1]) <= cell[1] /\ cell[1] <= Max(from[1], to[1])
     /\ Min(from[2], to[2]) <= cell[2] /\ cell[2] <= Max(from[2], to[2])
     /\ (cell[1] - from[1]) * (to[2] - from[2])
          = (cell[2] - from[2]) * (to[1] - from[1])}

\* the cell holds no piece
Empty(cell) == board[cell[1]][cell[2]] = None

\* the rank the pawns of a color are set up on
StartingRank(color) == IF color = "white" THEN 6 ELSE 1

\* C22: a pawn's two-square move along its column is accepted only if the
\* pawn is unmoved and on its starting rank and both the cell in between and
\* the destination are empty.
C22_PawnDoubleStep ==
  (/\ last.op = "is_valid_move"
   /\ Called.piece_type = "pawn"
   /\ last.to[2] = Called.col
   /\ Abs(last.to[1] - Called.row) = 2
   /\ last.ret)
    => /\ ~Called.has_moved
       /\ Called.row = StartingRank(Called.color)
       /\ \A cell \in Between(CalledFrom, last.to) : Empty(cell)
       /\ Empty(last.to)

\* the line of movement of a rook, a bishop or a queen
OnLine(piece_type, from, to) ==
  LET straight == from[1] = to[1] \/ from[2] = to[2]
      diagonal == /\ Abs(to[1] - from[1]) = Abs(to[2] - from[2])
                  /\ Abs(to[1] - from[1]) # 0
  IN  CASE piece_type = "rook" -> straight
        [] piece_type = "bishop" -> diagonal
        [] piece_type = "queen" -> straight \/ diagonal

\* the last call asked a rook, a bishop or a queen
SlidingCalled ==
  /\ last.op = "is_valid_move"
  /\ Called.piece_type \in {"rook", "bishop", "queen"}

\* C27: a rook, bishop or queen move is accepted only if the destination is
\* on the piece's line of movement and every cell strictly between the piece
\* and the destination is empty; such a move onto an opposing piece is
\* accepted.
C27_SlidingPiecesDoNotJump ==
  SlidingCalled
    => /\ last.ret
            => /\ OnLine(Called.piece_type, CalledFrom, last.to)
               /\ \A cell \in Between(CalledFrom, last.to) : Empty(cell)
       /\ (/\ OnLine(Called.piece_type, CalledFrom, last.to)
           /\ last.to # CalledFrom
           /\ \A cell \in Between(CalledFrom, last.to) : Empty(cell)
           /\ CalledTarget # None
           /\ pieces[CalledTarget].color # Called.color)
            => last.ret

\* a rook, bishop or queen was refused an opposing piece on its line two
\* cells away, behind an occupied cell
C27_Witness ==
  /\ SlidingCalled
  /\ ~last.ret
  /\ OnLine(Called.piece_type, CalledFrom, last.to)
  /\ Abs(last.to[1] - Called.row) = 2
  /\ \E cell \in Between(CalledFrom, last.to) : ~Empty(cell)
  /\ CalledTarget # None
  /\ pieces[CalledTarget].color # Called.color

\* C28: is_valid_move is false for every piece kind and every destination on
\* the grid that holds a piece of the mover's own color, the piece's own cell
\* included.
C28_NoMoveOntoOwnColor ==
  (/\ last.op = "is_valid_move"
   /\ CalledTarget # None
   /\ pieces[CalledTarget].color = Called.color)
    => ~last.ret

\* a bishop was refused a pawn of its own color that its diagonal reaches
C28_Witness ==
  /\ last.op = "is_valid_move"
  /\ Called.piece_type = "bishop"
  /\ ~last.ret
  /\ Abs(last.to[1] - Called.row) = 2 /\ Abs(last.to[2] - Called.col) = 2
  /\ \A cell \in Between(CalledFrom, last.to) : Empty(cell)
  /\ CalledTarget # None
  /\ pieces[CalledTarget].color = Called.color

\* the call was refused the cell the piece stands on
C28_NullMoveWitness ==
  /\ last.op = "is_valid_move"
  /\ last.to = CalledFrom
  /\ CalledTarget = last.piece
  /\ ~last.ret

\* C29: a queen's is_valid_move is true exactly when the is_valid_move of a
\* rook or of a bishop of the same color on the same cell is true for the
\* destination.
C29_QueenIsRookOrBishop ==
  (last.op = "is_valid_move" /\ Called.piece_type = "queen")
    => last.ret =
         (\/ Rook_is_valid_move(Called, pieces, board, last.to[1], last.to[2])
          \/ Bishop_is_valid_move(Called, pieces, board, last.to[1], last.to[2]))

\* a queen was allowed a move along a diagonal that a rook is not allowed
C29_Witness ==
  /\ last.op = "is_valid_move"
  /\ Called.piece_type = "queen"
  /\ last.ret
  /\ ~Rook_is_valid_move(Called, pieces, board, last.to[1], last.to[2])
  /\ Abs(last.to[1] - Called.row) = 2

\* -------------------------------------------------------------------- C30
\* a move as the tuple (from_row, from_col, to_row, to_col)
Flat(move) == <<move[1][1], move[1][2], move[2][1], move[2][2]>>

\* the lexicographic order on tuples of four numbers
LexLess(a, b) ==
  \E i \in 1..4 : a[i] < b[i] /\ \A j \in 1..(i - 1) : a[j] = b[j]

\* each move of the list is below the next one
StrictlyIncreasing(moves) ==
  \A i \in 1..(Len(moves) - 1) : LexLess(Flat(moves[i]), Flat(moves[i + 1]))

\* C30: the list that get_all_possible_moves(color) returns is strictly
\* increasing in the lexicographic order on (from_row, from_col, to_row,
\* to_col): row-major by source, then row-major by destination, no move
\* twice.
C30_MoveOrder ==
  \A color \in Colors : StrictlyIncreasing(GetAllPossibleMoves(Self, color).ret)

\* two moves of a piece to cells of one row (in row-major order) and the
\* move of a piece of a later cell
SourcesAndDestinations(moves) ==
  \E i \in 1..(Len(moves) - 2) :
    /\ moves[i][1] = moves[i + 1][1]
    /\ moves[i][2][1] = moves[i + 1][2][1]
    /\ moves[i + 1][1] # moves[i + 2][1]

\* after the middle game the list of the side to move holds moves of one
\* piece to several cells of a row and moves of several pieces
C30_Witness ==
  /\ Len(move_history) = Len(MiddleGame)
  /\ ~game_over
  /\ SourcesAndDestinations(GetAllPossibleMoves(Self, current_player).ret)

\* -------------------------------------------------------------------- C23
\* the value of the position after mover's move (from, to), searched to the
\* depth: the color that answers chooses among its moves, the searching
\* color ai_color for the greatest and its opponent for the least of the
\* values of the answers; a position at depth 0 is worth its evaluation, and
\* a position without answers what _alpha_beta returns for it
RECURSIVE LayerValue(_, _, _, _, _, _)
LayerOver(applied, ai_color, moves, depth, chooser) ==
  LET values == {LayerValue(applied, ai_color, moves[i][1], moves[i][2],
                            depth - 1, chooser) : i \in 1..Len(moves)}
  IN  IF values = {}
      THEN (IF chooser = ai_color THEN PosInf ELSE NegInf)
      ELSE IF chooser = ai_color THEN Greatest(values) ELSE Least(values)

LayerValue(self, ai_color, from, to, depth, mover) ==
  IF depth = 0 THEN EvaluatePositionAdvanced(self, ai_color).ret
  ELSE LayerOver(AfterMove(self, from, to), ai_color,
         GetAllPossibleMoves(AfterMove(self, from, to), Other(mover)).ret,
         depth, Other(mover))

\* C23: the value that _alpha_beta returns for a move of the searching color
\* is the maximum of the children's values at every layer where the
\* searching color chooses among its moves, the minimum at every layer where
\* the opponent chooses among the opponent's moves, and the evaluation at
\* depth 0.
C23_SearchLayers ==
  last.op = "_alpha_beta"
    => last.ret = LayerValue(Self, last.color, last.from, last.to, last.depth,
                             last.color)

\* ------------------------------------------------------------ C24 to C26
\* the hard search has returned
HardReturned == last.op = "get_best_move" /\ last.difficulty = "hard"

\* the greatest of the first i scores of the calls s
RunningMax(s, i) == Greatest({s[j].score : j \in 1..i})

\* best_score after each call is the greatest of all the scores so far, of
\* every depth: it is never reset and never decreases
BestScoreRuns(s) == \A i \in 1..Len(s) : s[i].best_score = RunningMax(s, i)

\* a move becomes the running best only with a score above every score
\* before it
ReplacedOnlyWhenGreater(s) ==
  \A i \in 1..Len(s) :
    s[i].replaced => \A j \in 1..(i - 1) : s[i].score > s[j].score

\* the move of the earliest call that attained the greatest score of all
EarliestBest(s) ==
  s[CHOOSE k \in 1..Len(s) :
      /\ s[k].score = RunningMax(s, Len(s))
      /\ \A j \in 1..(k - 1) : s[j].score # s[k].score].move

\* C24 as stated: best_score is never reset between depths and never
\* decreases, a root move replaces the running best only when its score is
\* above every score recorded so far, and the move returned, when a root move
\* was scored, is the earliest root move, in depth-then-list order, that
\* attained the maximum score of the whole search.
C24_RunningBest ==
  (HardReturned /\ last.scored # <<>>)
    => /\ BestScoreRuns(last.scored)
       /\ ReplacedOnlyWhenGreater(last.scored)
       /\ last.ret = EarliestBest(last.scored)

\* C24, amended: the same, with the move returned being the earliest that
\* attained the maximum when a root move scored above minus infinity; when
\* every score is minus infinity the move returned is drawn at random from
\* possible_moves.
C24_RunningBestAboveMinusInfinity ==
  (HardReturned /\ last.scored # <<>>)
    => /\ BestScoreRuns(last.scored)
       /\ ReplacedOnlyWhenGreater(last.scored)
       /\ IF RunningMax(last.scored, Len(last.scored)) > NegInf
          THEN last.ret = EarliestBest(last.scored) /\ last.draws = <<>>
          ELSE Len(last.draws) = 1

\* the search went on to depth 2, where no move scored above the best of
\* depth 1, which it returned
C24_Witness ==
  /\ HardReturned
  /\ \E i \in 1..Len(last.scored) :
       /\ last.scored[i].depth = 1
       /\ last.scored[i].move = last.ret
       /\ last.scored[i].replaced
       /\ \A j \in (i + 1)..Len(last.scored) : ~last.scored[j].replaced
  /\ \E j \in 1..Len(last.scored) : last.scored[j].depth = 2

\* a move of depth 2 scored above every score of depth 1 and took its place
C24_DeeperWitness ==
  /\ HardReturned
  /\ \E i \in 1..Len(last.scored) :
       /\ last.scored[i].depth = 2
       /\ last.scored[i].replaced
       /\ last.scored[i].move = last.ret

\* the moves of the calls s made at the depth, in the order of the calls
MovesAt(s, depth) ==
  LET at == SelectSeq(s, LAMBDA call : call.depth = depth)
  IN  [i \in 1..Len(at) |-> at[i].move]

IsPrefix(a, b) == Len(a) <= Len(b) /\ a = SubSeq(b, 1, Len(a))

\* the destination of the move holds a piece
IsCapture(self, move) == self.board[move[2][1]][move[2][2]] # None

\* ordered holds the moves of the list, each once, the captures before the
\* quiet moves and each group in the order of the list
StablePartition(self, ordered, moves) ==
  /\ Len(ordered) = Len(moves)
  /\ \A i \in 1..Len(moves) : \E j \in 1..Len(ordered) : ordered[j] = moves[i]
  /\ \A i, j \in 1..Len(ordered) :
       i < j => /\ IsCapture(self, ordered[j]) => IsCapture(self, ordered[i])
                /\ IsCapture(self, ordered[i]) = IsCapture(self, ordered[j])
                     => \E k, l \in 1..Len(moves) :
                          k < l /\ moves[k] = ordered[i] /\ moves[l] = ordered[j]

\* C25: at the root level as at every level the hard search examines the
\* moves with the captures before the quiet moves, each group in the order
\* of get_all_possible_moves: at each depth the root moves examined are the
\* first of the list so ordered, which is a stable partition of the list.
C25_MoveOrdering ==
  HardReturned
    => \E ai_color \in Colors :
         /\ ai_color = last.color
         /\ StablePartition(Self,
              OrderMoves(Self, GetAllPossibleMoves(Self, ai_color).ret),
              GetAllPossibleMoves(Self, ai_color).ret)
         /\ \A depth \in 1..MaxDepth :
              IsPrefix(MovesAt(last.scored, depth),
                       OrderMoves(Self, GetAllPossibleMoves(Self, ai_color).ret))

\* the calls s go through the depths from 1 on in increasing order, none
\* left out, up to max_depth at most
DepthsInOrder(s) ==
  /\ s # <<>> => s[1].depth = 1
  /\ \A i \in 1..Len(s) : s[i].depth <= MaxDepth
  /\ \A i \in 1..(Len(s) - 1) :
       s[i + 1].depth = s[i].depth \/ s[i + 1].depth = s[i].depth + 1

\* the iteration of the depth went through the whole list of moves, or up to
\* a score of plus infinity
IterationComplete(s, depth, moves) ==
  \/ MovesAt(s, depth) = moves
  \/ /\ IsPrefix(MovesAt(s, depth), moves)
     /\ \E i \in 1..Len(s) : s[i].depth = depth /\ s[i].score >= PosInf

\* the calls s on the moves, of which the time limit allowed `allowed`: no
\* call is started once the limit has passed, and until then every
\* iteration is gone through
StoppedByDeadlineOnly(s, allowed, moves) ==
  /\ Len(s) <= allowed
  /\ \A depth \in 1..MaxDepth :
       \/ IterationComplete(s, depth, moves)
       \/ /\ Len(s) = allowed
          /\ IsPrefix(MovesAt(s, depth), moves)
          /\ \A i \in 1..Len(s) : s[i].depth <= depth

\* C26: the hard search starts no root move and no depth once its time limit
\* has passed and stops for nothing else before the list and the depths are
\* gone through; every descent it started is completed and the board
\* restored; the depths are explored from 1 up to at most 4 in increasing
\* order, and get_best_move returns.
C26_CoarseCancellation ==
  /\ [][BestMoveReturned =>
          UNCHANGED <<board, pieces, current_player, game_over, winner,
                      move_history>>]_vars
  /\ [](HardReturned
          => \E ai_color \in Colors :
               /\ ai_color = last.color
               /\ last.searches = Len(last.scored)
               /\ DepthsInOrder(last.scored)
               /\ last.ret # <<>>
                    => StoppedByDeadlineOnly(last.scored, last.allowed,
                         GetAllPossibleMoves(Self, ai_color).ret))

\* the time limit passed during a call of depth 2 on a move that is not the
\* last of the list: the search made no further call
C26_Witness ==
  /\ HardReturned
  /\ last.scored # <<>>
  /\ Len(last.scored) = last.allowed
  /\ last.scored[Len(last.scored)].depth = 2
  /\ Len(MovesAt(last.scored, 2)) = 2

\* the search went through the four depths before its time limit
C26_CompleteWitness ==
  /\ HardReturned
  /\ Len(last.scored) < last.allowed
  /\ last.scored[Len(last.scored)].depth = MaxDepth

\* -------------------------------------------------------------------- C31
\* _evaluate_position_advanced has returned
Evaluated == last.op = "_evaluate_position_advanced"

\* the cells that hold a piece
Occupied == {cell \in Rows \X Rows : board[cell[1]][cell[2]] # None}

PieceOn(cell) == pieces[board[cell[1]][cell[2]]]

\* what the piece on the cell is worth to the color: its value and the bonus
\* of its place, times 20, counted against the color for a piece of the
\* other color
WorthTo(color, cell) ==
  LET worth == PieceValues[PieceOn(cell).piece_type]
                 + GetPositionBonus(PieceOn(cell), cell[1], cell[2])
  IN  IF PieceOn(cell).color = color THEN worth ELSE 0 - worth

RECURSIVE SumWorth(_, _)
SumWorth(color, cells) ==
  IF cells = {} THEN 0
  ELSE LET cell == CHOOSE cell \in cells : TRUE
       IN  WorthTo(color, cell) + SumWorth(color, cells \ {cell})

\* the moves the color has more than the other color, 0.1 each, times 20
MobilityOf(color) ==
  2 * (Len(GetAllPossibleMoves(Self, color).ret)
         - Len(GetAllPossibleMoves(Self, Other(color)).ret))

\* the color has no king on the board
NoKing(color) ==
  \A cell \in Occupied :
    ~(PieceOn(cell).piece_type = "king" /\ PieceOn(cell).color = color)

\* the king safety of the color in the score of the color, times 20: the
\* penalty when it has no king, else two points for each pawn of its shield
KingSafetyIn(color, penalty) ==
  IF NoKing(color) THEN penalty
  ELSE 40 * Cardinality({cell \in Occupied :
              /\ PieceOn(cell).piece_type = "pawn"
              /\ PieceOn(cell).color = color
              /\ \E king \in Occupied :
                   /\ PieceOn(king).piece_type = "king"
                   /\ PieceOn(king).color = color
                   /\ king[1] = IF color = "white" THEN 7 ELSE 0
                   /\ cell[1] = IF color = "white" THEN 6 ELSE 1
                   /\ Abs(cell[2] - king[2]) <= 1})

\* on a board where a color has no king, the score is the material and the
\* mobility of the AI's color, and the king safety of each color with the
\* penalty for a missing king, counted for the AI's color and against the
\* other
MissingKingCosts(penalty) ==
  (Evaluated /\ \E color \in Colors : NoKing(color))
    => last.ret = SumWorth(last.color, Occupied) + MobilityOf(last.color)
                    + KingSafetyIn(last.color, penalty)
                    - KingSafetyIn(Other(last.color), penalty)

\* C31 as stated: when a color has no king on the board, its king safety
\* contributes exactly -100 (-2000 in twentieths) to the score computed from
\* its perspective and +100 from the perspective of the other color, and
\* the evaluation completes.
C31_MissingKingPenalty == MissingKingCosts(-2000)

\* C31, amended: _evaluate_king_safety returns -100 for a color without a
\* king, and with the weight 2 of king safety this contributes exactly -200
\* (-4000 in twentieths) to the score from its perspective and +200 from the
\* perspective of the other color; the evaluation completes.
C31_MissingKingPenaltyWeighted ==
  /\ MissingKingCosts(-4000)
  /\ Evaluated => last.ret \in Int

\* the board without a white king was evaluated for white, black's king
\* having a pawn in its shield
C31_Witness ==
  /\ Evaluated
  /\ last.color = "white"
  /\ NoKing("white")
  /\ ~NoKing("black")
  /\ KingSafetyIn("black", 0) = 40
  /\ board[4][4] # None

\* the board without a black king was evaluated for white
C31_OtherWitness ==
  /\ Evaluated
  /\ last.color = "white"
  /\ NoKing("black")
  /\ ~NoKing("white")

\* -------------------------------------------------------------------- C32
\* the move is an element of the list of moves
Listed(moves, from_row, from_col, to_row, to_col) ==
  \E i \in 1..Len(moves) :
    moves[i] = <<<<from_row, from_col>>, <<to_row, to_col>>>>

\* C32: on every board reached from the initial layout, make_move(from, to)
\* succeeds if and only if (from, to) is an element of
\* get_all_possible_moves(current_player) evaluated right before the call;
\* the move a successful call recorded is an element of that list.
C32_MakeMoveAgreesWithGenerator ==
  /\ [](\E moves \in {GetAllPossibleMoves(Self, current_player).ret} :
          \A from_row \in Coord, from_col \in Coord,
             to_row \in Coord, to_col \in Coord :
            MakeMoveCall(Self, from_row, from_col, to_row, to_col).ret[1]
              <=> Listed(moves, from_row, from_col, to_row, to_col))
  /\ [][SuccessfulMove
          => \E moves \in {GetAllPossibleMoves(Self, current_player).ret} :
               Listed(moves,
                      move_history'[Len(move_history')].from[1],
                      move_history'[Len(move_history')].from[2],
                      move_history'[Len(move_history')].to[1],
                      move_history'[Len(move_history')].to[2])]_vars

\* after the middle game a move of white succeeded that the list held, and
\* black, now to move, has moves that make_move accepts
C32_Witness ==
  /\ last = [op |-> "make_move", ret |-> <<TRUE, "Move successful">>]
  /\ n_success = Len(MiddleGame) + 1
  /\ current_player = "black"
  /\ ~game_over
  /\ Len(GetAllPossibleMoves(Self, "black").ret) > 0

\* -------------------------------------------------------------------- C33
\* the step is a reset_game call
ResetCalled == last'.op = "reset_game" /\ steps' = steps + 1

\* the initial layout: the pawns on the rows 1 (black) and 6 (white), the
\* pieces in piece_order on the rows 0 (black) and 7 (white), each on the
\* cell it believes in and unmoved, the other rows empty
InitialLayout(bd, ps) ==
  \A row \in Rows, col \in Rows :
    IF row \in 2..5 THEN bd[row][col] = None
    ELSE /\ bd[row][col] # None
         /\ ps[bd[row][col]] =
              [piece_type |-> IF row \in {1, 6} THEN "pawn" ELSE PieceOrder[col + 1],
               color |-> IF row <= 1 THEN "black" ELSE "white",
               row |-> row, col |-> col, has_moved |-> FALSE]

\* C33: once game_over is true every make_move fails, and game_over, winner,
\* current_player, the grid and move_history stay as they are until
\* reset_game is called; reset_game restores the initial layout with
\* current_player white, game_over false, winner None and an empty history.
C33_GameOverAbsorbing ==
  /\ [](game_over
          => \A from_row \in Coord, from_col \in Coord,
                to_row \in Coord, to_col \in Coord :
               ~MakeMoveCall(Self, from_row, from_col, to_row, to_col).ret[1])
  /\ [][(game_over /\ ~ResetCalled)
          => /\ UNCHANGED <<board, pieces, current_player, game_over, winner,
                            move_history>>
             /\ last'.op = "make_move" => ~last'.ret[1]]_vars
  /\ [][ResetCalled
          => /\ InitialLayout(board', pieces')
             /\ current_player' = "white"
             /\ ~game_over'
             /\ winner' = NoWinner
             /\ move_history' = <<>>]_vars

\* after the mate a move of the mated side that its piece's rule allows was
\* tried and refused
C33_Witness ==
  /\ game_over
  /\ winner = "white"
  /\ current_player = "black"
  /\ last = [op |-> "make_move", ret |-> <<FALSE, "Move would put king in check">>]

\* a game that a stalemate ended, with a move tried after it
C33_DrawWitness ==
  /\ game_over
  /\ winner = "draw"
  /\ last.op = "make_move"
  /\ ~last.ret[1]

\* -------------------------------------------------------------------- C34
\* the moves of the list after which the other color is mated: its king is
\* attacked and it has no legal move
MatingMoves(self, color, moves) ==
  {moves[i] : i \in {i \in 1..Len(moves) :
     /\ KingAttacked(AfterMove(self, moves[i][1], moves[i][2]), Other(color))
     /\ ~HasLegalMove(AfterMove(self, moves[i][1], moves[i][2]), Other(color))}}

\* C34: in hard mode, when it is the AI's turn and a legal move delivers
\* checkmate, get_best_move returns a checkmating move whenever the search
\* has completed depth 1 before the deadline.
C34_MateInOneTaken ==
  (HardReturned /\ last.color = current_player)
    => \E moves \in {GetAllPossibleMoves(Self, current_player).ret} :
         (/\ MatingMoves(Self, current_player, moves) # {}
          /\ IterationComplete(last.scored, 1, moves))
           => last.ret \in MatingMoves(Self, current_player, moves)

\* -------------------------------------------------------------------- C35
\* C35: every non-capturing pawn move that the pawn's rule accepts, one or
\* two squares along its column, strictly increases the positional bonus
\* the evaluator gives the pawn: it moves the pawn to a lower row for white
\* and to a higher row for black.
C35_PawnAdvancesTowardBonus ==
  (/\ last.op = "is_valid_move"
   /\ Called.piece_type = "pawn"
   /\ last.to[2] = Called.col
   /\ last.ret)
    => /\ GetPositionBonus(Called, last.to[1], last.to[2])
            > GetPositionBonus(Called, Called.row, Called.col)
       /\ IF Called.color = "white" THEN last.to[1] < Called.row
          ELSE last.to[1] > Called.row

\* -------------------------------------------------------------------- C36
\* the float that an AI of the other color returns for the board
OtherDouble == EvaluatePositionDouble(Self, Other(last.color))

\* C36 as stated: the score an AI configured as white computes for a board
\* is the exact negation of the score an AI configured as black computes for
\* the same board.
C36_EvaluationAntisymmetric ==
  Evaluated => last.double = DoubleNeg(OtherDouble)

\* C36, amended: the two scores are negations of each other up to the
\* rounding of the float sums, their sum being at most 2^-40 in magnitude;
\* in exact arithmetic they are exact negations, the material, positional,
\* king-safety and mobility terms all flipping sign.
C36_EvaluationAntisymmetricUpToRounding ==
  Evaluated
    => /\ last.ret = 0 - EvaluatePositionAdvanced(Self, Other(last.color)).ret
       /\ ExactSum(last.double, OtherDouble).mag[1] = 0
       /\ ExactSum(last.double, OtherDouble).mag[2] = 0
       /\ ExactSum(last.double, OtherDouble).mag[3] <= 2 ^ 17

\* a board with both kings behind a pawn each was evaluated, and the floats
\* of the two colors are not exact negations of each other
C36_Witness ==
  /\ Evaluated
  /\ ~NoKing("white") /\ ~NoKing("black")
  /\ KingSafetyIn("white", 0) > 0 /\ KingSafetyIn("black", 0) > 0
  /\ last.ret # 0
  /\ last.double # DoubleNeg(OtherDouble)

\* a board was evaluated on which the floats are exact negations
C36_ExactWitness ==
  /\ Evaluated
  /\ last.ret # 0
  /\ last.double = DoubleNeg(OtherDouble)
  /\ last.double.mag[3] # 0


\* ------------------------------------------------------------------- C37
\* the GameTimer of the GUI
Timer == gui.game_timer

\* what the clock of a player has lost since it was last set: what it was
\* set to and was granted, less what it shows
Deducted(t, player) ==
  t.initial_time[player] + t.granted[player] - t.time[player]

\* no interval is deducted twice or from the player it did not elapse for:
\* a clock has lost no more than the time that passed while its player was
\* the current player of the running, unpaused timer
DeductedAtMostOnce ==
  \A player \in Colors : Deducted(Timer, player) <= Timer.owed[player]

\* both clocks are at least 0
ClocksNotNegative == \A player \in Colors : Timer.time[player] >= 0

\* the clock of the player who is not the current player does not go down,
\* unless reset_timer sets the clocks anew
WaitingClockKept ==
  \A player \in Colors :
    player # Timer.current_player /\ last'.op # "reset_timer"
      => gui'.game_timer.time[player] >= Timer.time[player]

\* C37: under every interleaving of the timer thread's
\* _update_current_time with switch_player, pause_timer and resume_timer
\* called from another thread, each interval of elapsed time is deducted
\* once only and only from the clock of the player who was the current
\* player while it elapsed, the waiting player's clock never decreases and
\* both clocks stay at least 0.
C37_ClockAccounting ==
  /\ [](DeductedAtMostOnce /\ ClocksNotNegative)
  /\ [][WaitingClockKept]_vars


\* ------------------------------------------------------------------- C38
\* the timer thread is inside the loop of _timer_loop: at its test, in
\* _update_current_time, or asleep before the next round
InTimerLoop(t) == t.thread.pc \in {"loop", "read", "write", "stamp", "sleep"}

\* no call of the main thread is under way, the timer is running and not
\* paused
RunningAfterReturn(t) == t.main.pc = "idle" /\ t.is_running /\ ~t.is_paused

\* a running timer has its thread in the loop
RunningTimerHasThread == RunningAfterReturn(Timer) => InTimerLoop(Timer)

\* on_time_up was called only for a player whose clock was at 0
TimeUpForExpiredClock ==
  \A i \in 1..Len(Timer.time_up) : Timer.time_up[i].left = 0

\* C38: after any sequence of start_timer, stop_timer, reset_timer and
\* time-up events, whenever start_timer has returned and the timer is
\* running and not paused, a timer thread is executing the timer loop (so
\* that the clock of the current player goes down to 0), and on_time_up is
\* called for the player whose clock has reached 0.
C38_StartedClockRuns == RunningTimerHasThread /\ TimeUpForExpiredClock


\* ------------------------------------------------------------------- C39
\* the connection between the two programs
Network == gui.network

\* the connection is up and the local manager reports it as connected
ReportedConnected == ~Network.closed /\ Network.local.is_connected

\* nothing more will be delivered of what was sent so far: all of it was
\* read, or the listener of the peer has ended
NothingToCome == Network.stream = <<>> \/ ~Network.peer.listening

\* the moves handed to on_move_received are the first of the moves sent, in
\* the order sent, each once
DeliveredInOrder == IsPrefix(Network.peer.received, Network.sent)

\* no move sent is missing while the connection is reported as connected
NoMoveDropped ==
  ReportedConnected /\ NothingToCome
    => Network.peer.received = Network.sent

\* C39: while the connection stays up, every move sent with send_move is
\* handed to the peer's on_move_received once and in the order sent, also
\* when two messages arrive in one socket read or one message is split
\* over two reads; no move is dropped while the connection is still
\* reported as connected.
C39_MoveDelivery == DeliveredInOrder /\ NoMoveDropped

====
